---- MODULE Spec2Model ----
(***************************************************************************)
(* A model of the local-first replication library:                         *)
(*   - the vector clock (Core.ts: VectorClock),                            *)
(*   - one replica of the framework (Framework.ts: setWithSync,            *)
(*     applyOperations, performReconciliation and the two background       *)
(*     loops of LocalFirstLive), in specification Spec,                    *)
(*   - several replicas exchanging the operations they emit, in            *)
(*     specification SpecConv,                                             *)
(*   - the WebSocket sync engine's request table (Sync.ts: push, pull,     *)
(*     reconcile and their message handlers), in specification SpecSync.   *)
(*                                                                         *)
(* Scheduling: fibers are cooperative.  In the model a fiber runs from one  *)
(* transport request or sleep to the next without a switch; that is the    *)
(* schedule of the memory backend, whose operations are synchronous        *)
(* (Effect.sync), and one of the schedules of any other backend.  Inside   *)
(* such a section every loop iteration is a step of its own, so that what  *)
(* the code does with each operation can be observed.                      *)
(***************************************************************************)
EXTENDS Integers, Sequences, FiniteSets, TLC

\* ------------------------------------------------------------------ bounds

\* Operations a remote clock may have seen (sum of its components).
MaxTick == 1
\* Facade writes of the replica of Spec.
MaxWrites == 2
\* Operations in one pulled batch, in serverOperations and in conflicts.
MaxBatch == 2
\* Operations the replicas of SpecConv emit, all together.
MaxSent == 2
\* Calls of push, pull and reconcile in SpecSync.
MaxRequests == 2
\* Messages the socket of SpecSync receives.
MaxMessages == 2
\* WebSockets the engine of SpecSockets creates.
MaxSockets == 3

\* ------------------------------------------------------------- vocabulary

\* config.replicaId of the replica of Spec
Self == "a"
\* replica ids that occur in operations: this replica and a remote one
Ids == {"a", "b"}
\* storage slots (collection names)
Keys == {"k1"}
\* opaque values
Values == {"v1", "v2"}
\* a slot that holds nothing, an optional value that is not present
Absent == "absent"

\* ------------------------------------------------------------ VectorClock

\* VectorClock.timestamps is a Record<string, number>: a function on the
\* replica ids it mentions.  Entries that are not there read as 0 (|| 0).
emptyClock == [k \in {} |-> 0]

Get(clock, k) == IF k \in DOMAIN clock THEN clock[k] ELSE 0

increment(clock, replicaId) ==
  [k \in DOMAIN clock \cup {replicaId} |->
     IF k = replicaId THEN Get(clock, replicaId) + 1 ELSE clock[k]]

Less == -1
Equal == 0
Greater == 1

\* a compare that reads the keys of this.timestamps only
compare_thisKeys(this, other) ==
  LET allKeys == DOMAIN this
      allGreater == \A k \in allKeys : ~(Get(this, k) < Get(other, k))
      allLess == \A k \in allKeys : ~(Get(this, k) > Get(other, k))
  IN  IF allLess /\ ~allGreater THEN Less
      ELSE IF allGreater /\ ~allLess THEN Greater
      ELSE Equal

\* this.compare(other)
compare(this, other) ==
  LET allKeys == DOMAIN this \cup DOMAIN other
      allGreater == \A k \in allKeys : ~(Get(this, k) < Get(other, k))
      allLess == \A k \in allKeys : ~(Get(this, k) > Get(other, k))
  IN  IF allLess /\ ~allGreater THEN Less
      ELSE IF allGreater /\ ~allLess THEN Greater
      ELSE Equal

\* the clocks a run of at most n increments over ids D can produce
RECURSIVE Sum(_, _)
Sum(clock, D) ==
  IF D = {} THEN 0
  ELSE LET k == CHOOSE x \in D : TRUE IN clock[k] + Sum(clock, D \ {k})

ClocksUpTo(D, n) ==
  UNION { { c \in [S -> 1..n] : Sum(c, S) <= n } : S \in SUBSET D }

ClockPool == ClocksUpTo(Ids, MaxTick)

\* an optional VectorClock (serverClock?, resolvedState?) that is not present
NoClock == [absent |-> 0]

\* ---------------------------------------------------------- SyncOperation

\* The fields of a SyncOperation that the framework reads.
SetOp(key, value, replicaId, clock) ==
  [type |-> "set", key |-> key, value |-> value, replicaId |-> replicaId,
   vectorClock |-> clock, serverClock |-> NoClock]

DeleteOp(key, replicaId, clock) ==
  [type |-> "delete", key |-> key, value |-> Absent, replicaId |-> replicaId,
   vectorClock |-> clock, serverClock |-> NoClock]

ReconcileOp(key, replicaId, clock, serverClock) ==
  [type |-> "reconcile", key |-> key, value |-> Absent, replicaId |-> replicaId,
   vectorClock |-> clock, serverClock |-> serverClock]

\* What a server may deliver: every operation was emitted by its replica
\* after that replica incremented its own component.  A reconcile operation
\* comes with or without a serverClock; which clock it is does not matter,
\* applyOperations overwrites it at once.
RemoteOps ==
  LET stamps == { <<r, c>> \in Ids \X ClockPool : Get(c, r) >= 1 }
  IN  { SetOp(k, v, s[1], s[2]) : k \in Keys, v \in Values, s \in stamps }
      \cup { DeleteOp(k, s[1], s[2]) : k \in Keys, s \in stamps }
      \cup { ReconcileOp(k, s[1], s[2], sc) :
               k \in Keys, s \in stamps, sc \in {emptyClock, NoClock} }

\* ------------------------------------------------- one replica: the state

VARIABLES
  storage,      \* the storage backend: slot -> value, or Absent
  vectorClock,  \* LocalFirst.vectorClock, the Ref<VectorClock>
  facade,       \* the fiber running setWithSync: position and locals
  pullLoop,     \* the forked pull-and-apply loop: position and batch
  reconLoop,    \* the forked reconciliation loop: position and locals
  emitted       \* for each operation setWithSync handed to sync.push, in
                \* order: operation.vectorClock.timestamps[replicaId]

replicaVars == <<storage, vectorClock, facade, pullLoop, reconLoop, emitted>>

\* ------------------------------------- several replicas: the state

VARIABLES
  replicaStorage,  \* for each replica, its storage backend
  replicaClock,    \* for each replica, its LocalFirst.vectorClock
  sent,            \* the operations the replicas handed to sync.push
  delivered,       \* for each replica, the operations passed to its
                   \* applyOperations so far
  applied,         \* for each replica, those of them that it dispatched
  wroteLate,       \* for each replica: it wrote after an operation was
                   \* passed to its applyOperations
  lastDelivery     \* the last call of applyOperations, while nothing else
                   \* happened since: at which replica, whether the
                   \* operation had been applied there before, and the
                   \* storage before the call

convVars ==
  <<replicaStorage, replicaClock, sent, delivered, applied, wroteLate, lastDelivery>>

\* ------------------------------------ the sync engine: the state

VARIABLES
  requests,     \* the push, pull and reconcile calls made so far, in order;
                \* a request's id is its place
  statusQueue,  \* what was offered to statusQueue
  received,     \* the messages the socket received, in order
  operationQueue,  \* how many operations are on operationQueue
  wire          \* how many messages ws.send has put on the socket

requestVars == <<requests, statusQueue, received, operationQueue, wire>>

VARIABLES
  socket,             \* the WebSocket that can still fire events: "none",
                      \* "connecting", "open", or "closing" after close()
  ws,                 \* whether the variable ws holds a socket (not null)
  reconnectAttempts,  \* the counter reconnectAttempts
  reconnectTimer,     \* the delay of the pending reconnect timer, or NoTimer
  connLog             \* sinceOpen: automatic reconnect attempts started since
                      \* the last successful open; delay: the delay of the
                      \* timer that started the last of them; disconnected:
                      \* disconnect() was called and connect() was not since

connVars == <<socket, ws, reconnectAttempts, reconnectTimer, connLog>>

syncVars == <<requestVars, connVars>>

\* The replicated data types of Core.ts, each with the operands of a merge
\* and, once the merges were computed, their results.
VARIABLES
  lww,           \* LWWRegister: a, b, and then a.merge(b), b.merge(a)
  orMap,         \* ORMap: a, b, and then a.merge(b), b.merge(a)
  rga,           \* RGA: a, b built by two replicas, and then the two merges
  tombstoneSet   \* TombstoneSet: a, b, c, and then the three merges

crdtVars == <<lww, orMap, rga, tombstoneSet>>

\* More of Core.ts, and the hub of Hub.ts.
VARIABLES
  pnCounter,     \* PNCounter: the counter each replica holds, and what was counted
  twoPhaseSet,   \* TwoPhaseSet: the set each replica holds, and what was removed
  orderedSet,    \* OrderedSet: the set each replica holds, and what was removed
  clocks,        \* VectorClock: a, b, and then a.compare(b), b.compare(a)
  hub            \* Hub: the queue, the subscribers, and what was published

moreVars == <<pnCounter, twoPhaseSet, orderedSet, clocks, hub>>

\* What LocalFirstLive is given and what it builds.
VARIABLES
  layer,         \* the LocalFirstConfig, and once the layer is built the
                 \* services provided and whether the two loops were forked
  reconciliationRequest, \* the last ReconciliationRequest a replica of
                         \* SpecRequest handed to sync.reconcile
  typed,                 \* a replica on the IndexedDB backend: the storage
                         \* of G-Sets, the clock, the fiber of
                         \* GSetCollection.add and the pull loop
  sockets                \* an engine whose connect() is called at any time:
                         \* every WebSocket it created, the one ws holds,
                         \* reconnectAttempts and the pending reconnect timers

extraVars == <<layer, reconciliationRequest, typed, sockets>>

dataVars == <<crdtVars, moreVars, extraVars>>

\* -------------------------------------------------- one replica, continued

\* SyncError codes of the three requests
PushErrors == {"NOT_CONNECTED", "TIMEOUT", "SEND_ERROR"}
PullErrors == {"NOT_CONNECTED", "TIMEOUT", "PULL_ERROR"}
ReconcileErrors == {"NOT_CONNECTED", "TIMEOUT", "RECONCILE_ERROR"}

\* entries of ReconciliationResponse.conflicts
Conflicts ==
  [key : Keys, serverValue : Values, resolution : {"client", "server", "merge"}]

\* ------------------------------------------ applyOperations: the loop body

\* applyOperations without the test of replicaId
isLoopback_never(operation, replicaId) == FALSE

\* if (operation.replicaId === replicaId) continue
isLoopback(operation, replicaId) == operation.replicaId = replicaId

\* applyOperations that also skips an operation whose clock equals the
\* local clock
isOutdated_orEqual(operation, clock) ==
  compare(operation.vectorClock, clock) \in {Less, Equal}

\* if (operation.vectorClock.compare(currentClock) === -1) continue
isOutdated(operation, clock) ==
  compare(operation.vectorClock, clock) = Less

\* applyOperations that merges the operation's clock into the local clock
setVectorClock_max(clock, operation) ==
  [k \in DOMAIN clock \cup DOMAIN operation.vectorClock |->
     IF Get(clock, k) > Get(operation.vectorClock, k)
       THEN Get(clock, k) ELSE Get(operation.vectorClock, k)]

\* yield* Ref.set(vectorClock, operation.vectorClock)
setVectorClock(clock, operation) == operation.vectorClock

\* One iteration of the for loop of applyOperations on `operation`, with
\* the backend accepting the write (ok) or refusing it.  did:
\*   "loopback"  continue, the operation is our own
\*   "outdated"  continue, its clock compares Less than the local clock
\*   "applied"   dispatched by type, then the clock is overwritten
\*   "failed"    the storage effect failed with StorageError
applyOperation(operation, st, clock, replicaId, ok) ==
  IF isLoopback(operation, replicaId)
    THEN [did |-> "loopback", storage |-> st, clock |-> clock]
  ELSE IF isOutdated(operation, clock)
    THEN [did |-> "outdated", storage |-> st, clock |-> clock]
  ELSE IF operation.type = "set"
    THEN IF ok
           THEN [did |-> "applied",
                 storage |-> [st EXCEPT ![operation.key] = operation.value],
                 clock |-> setVectorClock(clock, operation)]
           ELSE [did |-> "failed", storage |-> st, clock |-> clock]
  ELSE IF operation.type = "delete"
    THEN IF ok
           THEN [did |-> "applied",
                 storage |-> [st EXCEPT ![operation.key] = Absent],
                 clock |-> setVectorClock(clock, operation)]
           ELSE [did |-> "failed", storage |-> st, clock |-> clock]
  ELSE \* "reconcile": Ref.set(serverClock) when present, then Ref.set(vectorClock)
    LET afterServerClock ==
          IF operation.serverClock # NoClock THEN operation.serverClock ELSE clock
        afterOperation == setVectorClock(afterServerClock, operation)
    IN  [did |-> "applied", storage |-> st, clock |-> afterOperation]

\* ------------------------------------------------ what the fibers observe

\* facade.raced: while the push of setWithSync was pending, another fiber
\* changed the slot it wrote or the clock it incremented.
FacadeObserves(newStorage, newClock) ==
  [facade EXCEPT !.raced =
     @ \/ (facade.pc = "pushing"
             /\ (newStorage[facade.name] # storage[facade.name]
                   \/ newClock # vectorClock))]

\* No fiber is between two of its switch points.
AllSuspended ==
  /\ facade.pc \in {"idle", "pushing"}
  /\ pullLoop.pc \in {"sleep", "failed"}
  /\ reconLoop.pc \in {"sleep", "reconcile", "failed"}

\* --------------------------------------------------------------- Init

\* the fiber of setWithSync at pc; result and pushResult tell how the call
\* ended once pc is "done"
FacadeAt(pc, name, value, before, result, pushResult) ==
  [pc |-> pc, name |-> name, value |-> value, before |-> before,
   result |-> result, pushResult |-> pushResult, raced |-> FALSE]

FacadeIdle == FacadeAt("idle", "k1", "v1", 0, "none", "none")

\* the pull loop at pc; from, failed and dropped tell about the last
\* operation applyOperations reached: its replicaId, whether its storage
\* write failed, and how many operations of the batch were behind it then;
\* error is the code of the SyncError sync.pull just failed with
PullLoopAt(pc, remaining, from, failed, dropped) ==
  [pc |-> pc, remaining |-> remaining, from |-> from, failed |-> failed,
   dropped |-> dropped, error |-> "none"]

\* no conflict handled yet
NoConflict ==
  [key |-> Absent, serverValue |-> Absent, resolution |-> "none", before |-> Absent]

\* the reconciliation loop at pc; ended tells how the round ended once pc
\* is "done" ("integrated", or the code of the SyncError of sync.reconcile),
\* lastConflict is the last conflict handled, with the value its slot held
\* before; error is the code of the SyncError sync.pull just failed with
ReconLoopAt(pc, ended) ==
  [pc |-> pc, currentClock |-> emptyClock, remaining |-> 0, conflicts |-> 0,
   resolvedState |-> NoClock, lastConflict |-> NoConflict, ended |-> ended,
   error |-> "none"]

ReplicaInit ==
  /\ storage = [k \in Keys |-> Absent]
  /\ vectorClock = emptyClock
  /\ facade = FacadeIdle
  /\ pullLoop = PullLoopAt("sleep", 0, "none", FALSE, 0)
  /\ reconLoop = ReconLoopAt("sleep", "none")
  /\ emitted = <<>>

\* ------------------------------------------------------------ setWithSync

\* sync.push without the catchAll: its failure is the failure of setWithSync
catchAllPush_rethrows(outcome) ==
  IF outcome \in PushErrors THEN "SyncError" ELSE "ok"

\* .pipe(Effect.catchAll(() => Effect.void)) around sync.push: how
\* setWithSync ends for each outcome of the push
catchAllPush(outcome) == "ok"

\* yield* storage.set(collection.name, value)
setWithSync_set(name, value, ok) ==
  /\ AllSuspended
  /\ facade.pc = "idle"
  /\ Len(emitted) < MaxWrites
  /\ IF ok
       THEN /\ storage' = [storage EXCEPT ![name] = value]
            /\ facade' = FacadeAt("stored", name, value, 0, "none", "none")
       ELSE /\ storage' = storage
            /\ facade' = FacadeAt("done", name, value, 0, "StorageError", "none")
  /\ UNCHANGED <<vectorClock, pullLoop, reconLoop, emitted>>
  /\ UNCHANGED <<convVars, syncVars, dataVars>>

\* Ref.get, increment, Ref.set, build the operation, sync.push([operation]):
\* the push fails at once (socket not open, send throws) or is sent.
setWithSync_push(outcome) ==
  /\ facade.pc = "stored"
  /\ outcome \in {"NOT_CONNECTED", "SEND_ERROR", "sent"}
  /\ LET clock == vectorClock
         newClock == increment(clock, Self)
         operation == SetOp(facade.name, facade.value, Self, newClock)
     IN  /\ vectorClock' = newClock
         /\ emitted' = Append(emitted, Get(operation.vectorClock, operation.replicaId))
         /\ facade' = IF outcome = "sent"
                        THEN [facade EXCEPT !.pc = "pushing",
                                            !.before = Get(clock, Self)]
                        ELSE [facade EXCEPT !.pc = "done",
                                            !.before = Get(clock, Self),
                                            !.pushResult = outcome,
                                            !.result = catchAllPush(outcome)]
  /\ UNCHANGED <<storage, pullLoop, reconLoop>>
  /\ UNCHANGED <<convVars, syncVars, dataVars>>

\* the pending push ends: the ack arrives, or the 10 s timer fires
setWithSync_done(outcome) ==
  /\ AllSuspended
  /\ facade.pc = "pushing"
  /\ outcome \in {"ack", "TIMEOUT"}
  /\ facade' = [facade EXCEPT !.pc = "done", !.pushResult = outcome,
                              !.result = catchAllPush(outcome)]
  /\ UNCHANGED <<storage, vectorClock, pullLoop, reconLoop, emitted>>
  /\ UNCHANGED <<convVars, syncVars, dataVars>>

\* setWithSync returns to its caller
setWithSync_return ==
  /\ facade.pc = "done"
  /\ facade' = FacadeIdle
  /\ UNCHANGED <<storage, vectorClock, pullLoop, reconLoop, emitted>>
  /\ UNCHANGED <<convVars, syncVars, dataVars>>

\* -------------------------------------------------------- the pull loop

\* Effect.repeat(effect, Schedule.spaced(..)): the loop runs again after a
\* success and ends with the failure when the effect fails.
repeatAfter(failed) == IF failed THEN "failed" ELSE "sleep"

\* const operations = yield* sync.pull(): the server answers with a batch
pullLoop_pull(size) ==
  /\ AllSuspended
  /\ pullLoop.pc = "sleep"
  /\ size \in 0..MaxBatch
  /\ pullLoop' = PullLoopAt(IF size = 0 THEN "done" ELSE "apply", size,
                            "none", FALSE, 0)
  /\ UNCHANGED <<storage, vectorClock, facade, reconLoop, emitted>>
  /\ UNCHANGED <<convVars, syncVars, dataVars>>

\* const operations = yield* sync.pull(): the pull fails with a SyncError
pullLoop_pullFails(error) ==
  /\ AllSuspended
  /\ pullLoop.pc = "sleep"
  /\ error \in PullErrors
  /\ pullLoop' = [PullLoopAt("failing", 0, "none", FALSE, 0)
                    EXCEPT !.error = error]
  /\ UNCHANGED <<storage, vectorClock, facade, reconLoop, emitted>>
  /\ UNCHANGED <<convVars, syncVars, dataVars>>

\* applyOperations(operations, ..): the next operation of the batch.  The
\* batch was fixed by the server; nothing reads an operation before the
\* loop reaches it, so the operation is drawn here.
pullLoop_apply(operation, ok) ==
  /\ pullLoop.pc = "apply"
  /\ LET r == applyOperation(operation, storage, vectorClock, Self, ok)
         left == pullLoop.remaining - 1
     IN  /\ storage' = r.storage
         /\ vectorClock' = r.clock
         /\ facade' = FacadeObserves(r.storage, r.clock)
         /\ pullLoop' =
              IF r.did = "failed"
                THEN PullLoopAt("failing", 0, operation.replicaId, TRUE, left)
              ELSE PullLoopAt(IF left = 0 THEN "done" ELSE "apply",
                              left, operation.replicaId, FALSE, 0)
  /\ UNCHANGED <<reconLoop, emitted>>
  /\ UNCHANGED <<convVars, syncVars, dataVars>>

\* sync.pull failed with the SyncError, or applyOperations with the
\* StorageError: so does the round
pullLoop_fails ==
  /\ pullLoop.pc = "failing"
  /\ pullLoop' = PullLoopAt(repeatAfter(TRUE), 0, "none", FALSE, 0)
  /\ UNCHANGED <<storage, vectorClock, facade, reconLoop, emitted>>
  /\ UNCHANGED <<convVars, syncVars, dataVars>>

\* the round succeeded: Schedule.spaced(config.autoSyncInterval)
pullLoop_sleep ==
  /\ pullLoop.pc = "done"
  /\ pullLoop' = PullLoopAt(repeatAfter(FALSE), 0, "none", FALSE, 0)
  /\ UNCHANGED <<storage, vectorClock, facade, reconLoop, emitted>>
  /\ UNCHANGED <<convVars, syncVars, dataVars>>

\* ------------------------------------------------- performReconciliation

\* a handler that answers with an empty clock instead of the client's
catchSyncError_emptyState(currentClock) ==
  [status |-> "accepted", serverOperations |-> 0, resolvedState |-> emptyClock,
   conflicts |-> 0]

\* Effect.catchTag("SyncError", ..) around sync.reconcile: the response the
\* round integrates when the request fails
catchSyncError(currentClock) ==
  [status |-> "accepted", serverOperations |-> 0, resolvedState |-> currentClock,
   conflicts |-> 0]

\* the end of a round whose request failed: the response of catchSyncError
\* has no serverOperations and no conflicts, so integrating it is
\* Ref.set(vectorClock, response.resolvedState)
recon_fallback(currentClock, error) ==
  LET response == catchSyncError(currentClock)
      newClock == IF response.resolvedState # NoClock
                    THEN response.resolvedState ELSE vectorClock
  IN  /\ vectorClock' = newClock
      /\ facade' = FacadeObserves(storage, newClock)
      /\ reconLoop' = [ReconLoopAt("done", error)
                         EXCEPT !.currentClock = currentClock]

\* sync.pull(), Ref.get(vectorClock), build the request, sync.reconcile(request):
\* the reconcile fails at once (socket not open, send throws) and is caught,
\* or the request is sent.
recon_start(outcome) ==
  /\ AllSuspended
  /\ reconLoop.pc = "sleep"
  /\ outcome \in {"NOT_CONNECTED", "RECONCILE_ERROR", "sent"}
  /\ IF outcome = "sent"
       THEN /\ reconLoop' = [ReconLoopAt("reconcile", "none")
                               EXCEPT !.currentClock = vectorClock]
            /\ UNCHANGED <<vectorClock, facade>>
       ELSE recon_fallback(vectorClock, outcome)
  /\ UNCHANGED <<storage, pullLoop, emitted>>
  /\ UNCHANGED <<convVars, syncVars, dataVars>>

\* const operations = yield* sync.pull() fails: the round fails
recon_pullFails(error) ==
  /\ AllSuspended
  /\ reconLoop.pc = "sleep"
  /\ error \in PullErrors
  /\ reconLoop' = [ReconLoopAt("failing", "none") EXCEPT !.error = error]
  /\ UNCHANGED <<storage, vectorClock, facade, pullLoop, emitted>>
  /\ UNCHANGED <<convVars, syncVars, dataVars>>

\* sync.pull failed with the SyncError: so does the round
recon_fails ==
  /\ reconLoop.pc = "failing"
  /\ reconLoop' = ReconLoopAt(repeatAfter(TRUE), "none")
  /\ UNCHANGED <<storage, vectorClock, facade, pullLoop, emitted>>
  /\ UNCHANGED <<convVars, syncVars, dataVars>>

\* the pending reconcile fails by its 15 s timer and is caught
recon_timeout ==
  /\ AllSuspended
  /\ reconLoop.pc = "reconcile"
  /\ recon_fallback(reconLoop.currentClock, "TIMEOUT")
  /\ UNCHANGED <<storage, pullLoop, emitted>>
  /\ UNCHANGED <<convVars, syncVars, dataVars>>

\* the reconcile-response arrives with `ops` serverOperations
recon_response(ops) ==
  /\ AllSuspended
  /\ reconLoop.pc = "reconcile"
  /\ ops \in 0..MaxBatch
  /\ reconLoop' = [reconLoop EXCEPT
                     !.pc = IF ops > 0 THEN "serverOps" ELSE "resolve",
                     !.currentClock = emptyClock,
                     !.remaining = ops]
  /\ UNCHANGED <<storage, vectorClock, facade, pullLoop, emitted>>
  /\ UNCHANGED <<convVars, syncVars, dataVars>>

\* applyOperations(response.serverOperations, ..): the next operation
recon_serverOp(operation, ok) ==
  /\ reconLoop.pc = "serverOps"
  /\ LET r == applyOperation(operation, storage, vectorClock, Self, ok)
         left == reconLoop.remaining - 1
     IN  /\ storage' = r.storage
         /\ vectorClock' = r.clock
         /\ facade' = FacadeObserves(r.storage, r.clock)
         /\ reconLoop' =
              IF r.did = "failed"
                THEN ReconLoopAt(repeatAfter(TRUE), "none")
                ELSE [reconLoop EXCEPT !.pc = IF left = 0 THEN "resolve"
                                                          ELSE "serverOps",
                                       !.remaining = left]
  /\ UNCHANGED <<pullLoop, emitted>>
  /\ UNCHANGED <<convVars, syncVars, dataVars>>

\* if (response.resolvedState) Ref.set(vectorClock, response.resolvedState),
\* and if (response.conflicts), with `conflicts` of them.  Nothing read
\* either field of the response before.
recon_resolve(resolvedState, conflicts) ==
  /\ reconLoop.pc = "resolve"
  /\ resolvedState \in ClockPool \cup {emptyClock, NoClock}
  /\ conflicts \in 0..MaxBatch
  /\ LET newClock == IF resolvedState # NoClock THEN resolvedState ELSE vectorClock
     IN  /\ vectorClock' = newClock
         /\ facade' = FacadeObserves(storage, newClock)
         /\ reconLoop' =
              [reconLoop EXCEPT
                 !.pc = IF conflicts > 0 THEN "conflicts" ELSE "done",
                 !.conflicts = conflicts,
                 !.resolvedState = resolvedState,
                 !.ended = IF conflicts > 0 THEN "none" ELSE "integrated"]
  /\ UNCHANGED <<storage, pullLoop, emitted>>
  /\ UNCHANGED <<convVars, syncVars, dataVars>>

\* conflict handling that writes for resolution server only
resolveConflict_serverOnly(conflict, st) ==
  IF conflict.resolution = "server"
    THEN [st EXCEPT ![conflict.key] = conflict.serverValue]
    ELSE st

\* if (conflict.resolution === "server" || conflict.resolution === "merge")
\*   yield* storage.set(conflict.key, conflict.serverValue)
resolveConflict(conflict, st) ==
  IF conflict.resolution \in {"server", "merge"}
    THEN [st EXCEPT ![conflict.key] = conflict.serverValue]
    ELSE st

\* for (const conflict of response.conflicts): the next conflict
recon_conflict(conflict, ok) ==
  /\ reconLoop.pc = "conflicts"
  /\ conflict \in Conflicts
  /\ LET left == reconLoop.conflicts - 1
         writes == conflict.resolution \in {"server", "merge"}
         newStorage == IF writes /\ ~ok THEN storage
                                        ELSE resolveConflict(conflict, storage)
     IN  /\ storage' = newStorage
         /\ facade' = FacadeObserves(newStorage, vectorClock)
         /\ reconLoop' =
              IF writes /\ ~ok
                THEN ReconLoopAt(repeatAfter(TRUE), "none")
                ELSE [reconLoop EXCEPT
                        !.pc = IF left = 0 THEN "done" ELSE "conflicts",
                        !.conflicts = left,
                        !.lastConflict =
                           [key |-> conflict.key,
                            serverValue |-> conflict.serverValue,
                            resolution |-> conflict.resolution,
                            before |-> storage[conflict.key]],
                        !.ended = IF left = 0 THEN "integrated" ELSE "none"]
  /\ UNCHANGED <<vectorClock, pullLoop, emitted>>
  /\ UNCHANGED <<convVars, syncVars, dataVars>>

\* the round succeeded: Schedule.spaced(reconciliationInterval)
recon_sleep ==
  /\ reconLoop.pc = "done"
  /\ reconLoop' = ReconLoopAt(repeatAfter(FALSE), "none")
  /\ UNCHANGED <<storage, vectorClock, facade, pullLoop, emitted>>
  /\ UNCHANGED <<convVars, syncVars, dataVars>>

\* ----------------------------------------------- one replica: the steps

ReplicaNext ==
  \/ \E name \in Keys, value \in Values, ok \in BOOLEAN :
       setWithSync_set(name, value, ok)
  \/ \E outcome \in {"NOT_CONNECTED", "SEND_ERROR", "sent"} : setWithSync_push(outcome)
  \/ \E outcome \in {"ack", "TIMEOUT"} : setWithSync_done(outcome)
  \/ setWithSync_return
  \/ \E size \in 0..MaxBatch : pullLoop_pull(size)
  \/ \E error \in PullErrors : pullLoop_pullFails(error)
  \/ \E operation \in RemoteOps, ok \in BOOLEAN : pullLoop_apply(operation, ok)
  \/ pullLoop_fails
  \/ pullLoop_sleep
  \/ \E outcome \in {"NOT_CONNECTED", "RECONCILE_ERROR", "sent"} : recon_start(outcome)
  \/ \E error \in PullErrors : recon_pullFails(error)
  \/ recon_fails
  \/ recon_timeout
  \/ \E ops \in 0..MaxBatch : recon_response(ops)
  \/ \E operation \in RemoteOps, ok \in BOOLEAN : recon_serverOp(operation, ok)
  \/ \E resolvedState \in ClockPool \cup {emptyClock, NoClock},
        conflicts \in 0..MaxBatch :
       recon_resolve(resolvedState, conflicts)
  \/ \E conflict \in Conflicts, ok \in BOOLEAN : recon_conflict(conflict, ok)
  \/ recon_sleep

\* ----------------------------------- several replicas: the steps

\* the replicas of SpecConv
Replicas == {"a", "b", "c"}

NoDelivery ==
  [to |-> "none", again |-> FALSE, before |-> [k \in Keys |-> Absent]]

ConvInit ==
  /\ replicaStorage = [r \in Replicas |-> [k \in Keys |-> Absent]]
  /\ replicaClock = [r \in Replicas |-> emptyClock]
  /\ sent = {}
  /\ delivered = [r \in Replicas |-> {}]
  /\ applied = [r \in Replicas |-> {}]
  /\ wroteLate = [r \in Replicas |-> FALSE]
  /\ lastDelivery = NoDelivery

\* setWithSync at replica r, from storage.set to the push of the operation
replica_setWithSync(r, name, value) ==
  /\ Cardinality(sent) < MaxSent
  /\ LET clock == replicaClock[r]
         newClock == increment(clock, r)
         operation == SetOp(name, value, r, newClock)
     IN  /\ replicaStorage' = [replicaStorage EXCEPT ![r][name] = value]
         /\ replicaClock' = [replicaClock EXCEPT ![r] = newClock]
         /\ sent' = sent \cup {operation}
  /\ wroteLate' = [wroteLate EXCEPT ![r] = @ \/ delivered[r] # {}]
  /\ lastDelivery' = NoDelivery
  /\ UNCHANGED <<delivered, applied>>
  /\ UNCHANGED <<replicaVars, syncVars, dataVars>>

\* applyOperations([operation], ..) at replica r, for an operation the
\* server relays; the storage accepts the write
replica_applyOperations(r, operation) ==
  /\ operation \in sent
  /\ LET res == applyOperation(operation, replicaStorage[r], replicaClock[r], r, TRUE)
     IN  /\ replicaStorage' = [replicaStorage EXCEPT ![r] = res.storage]
         /\ replicaClock' = [replicaClock EXCEPT ![r] = res.clock]
         /\ applied' = IF res.did = "applied"
                         THEN [applied EXCEPT ![r] = @ \cup {operation}]
                         ELSE applied
  /\ delivered' = [delivered EXCEPT ![r] = @ \cup {operation}]
  /\ lastDelivery' = [to |-> r, again |-> operation \in applied[r],
                      before |-> replicaStorage[r]]
  /\ UNCHANGED <<sent, wroteLate>>
  /\ UNCHANGED <<replicaVars, syncVars, dataVars>>

ConvNext ==
  \/ \E r \in Replicas, name \in Keys, value \in Values :
       replica_setWithSync(r, name, value)
  \/ \E r \in Replicas, operation \in sent : replica_applyOperations(r, operation)

\* two replicas that write and are handed each other's operations, and
\* their own, in any order and any number of times
FilterNext ==
  \/ \E r \in Ids, name \in Keys, value \in Values :
       replica_setWithSync(r, name, value)
  \/ \E r \in Ids, operation \in sent : replica_applyOperations(r, operation)

\* ------------------------------------ the sync engine: the steps

\* what the server sends: the message type and the id it carries (id of an
\* ack and of a reconcile-response, requestId of operations)
Messages ==
  [type : {"ack", "operations", "reconcile-response"}, id : 1..MaxRequests]

NoMessage == [type |-> "none", id |-> 0]

\* A call of push, pull or reconcile after its message was sent:
\*   state    "pending", or how resume was first called: "succeeded" or
\*            the code of the SyncError
\*   handler  messageHandler is registered on the socket
\*   timer    the timeout is armed
\*   by       the message on which messageHandler called resume
Request(type, sendOk, error) ==
  [type |-> type, state |-> IF sendOk THEN "pending" ELSE error,
   handler |-> sendOk, timer |-> sendOk, by |-> NoMessage]

\* no reconnect timer is pending
NoTimer == -1

\* The layer is constructed once its connect() has succeeded.
SyncInit ==
  /\ socket = "open"
  /\ ws = TRUE
  /\ reconnectAttempts = 0
  /\ reconnectTimer = NoTimer
  /\ connLog = [sinceOpen |-> 0, delay |-> 0, disconnected |-> FALSE]
  /\ requests = <<>>
  /\ statusQueue = <<>>
  /\ received = <<>>
  /\ operationQueue = 0
  /\ wire = 0

\* if (!ws || ws.readyState !== WebSocket.OPEN)
notConnected == ~ws \/ socket # "open"

\* ws.send(..) puts one message on the socket unless it throws
send(sendOk) == wire' = wire + (IF sendOk THEN 1 ELSE 0)

\* push(operations) on an open socket: ws.send succeeds or throws
push(sendOk) ==
  /\ ~notConnected
  /\ Len(requests) < MaxRequests
  /\ requests' = Append(requests, Request("push", sendOk, "SEND_ERROR"))
  /\ statusQueue' = Append(statusQueue, "syncing")
  /\ send(sendOk)
  /\ UNCHANGED <<received, operationQueue>>
  /\ UNCHANGED <<replicaVars, convVars, connVars, dataVars>>

\* pull(config) on an open socket
pull(sendOk) ==
  /\ ~notConnected
  /\ Len(requests) < MaxRequests
  /\ requests' = Append(requests, Request("pull", sendOk, "PULL_ERROR"))
  /\ send(sendOk)
  /\ UNCHANGED <<statusQueue, received, operationQueue>>
  /\ UNCHANGED <<replicaVars, convVars, connVars, dataVars>>

\* reconcile(request) on an open socket
reconcile(sendOk) ==
  /\ ~notConnected
  /\ Len(requests) < MaxRequests
  /\ requests' = Append(requests, Request("reconcile", sendOk, "RECONCILE_ERROR"))
  /\ statusQueue' = Append(statusQueue, "syncing")
  /\ send(sendOk)
  /\ UNCHANGED <<received, operationQueue>>
  /\ UNCHANGED <<replicaVars, convVars, connVars, dataVars>>

\* the setTimeout callback of request id: resume(new SyncError(TIMEOUT)).
\* resume takes effect on its first call only.
timeout(id) ==
  /\ id \in DOMAIN requests
  /\ requests[id].timer
  /\ requests' = [requests EXCEPT
                    ![id].timer = FALSE,
                    ![id].state = IF @ = "pending" THEN "TIMEOUT" ELSE @]
  /\ UNCHANGED <<statusQueue, received, operationQueue, wire>>
  /\ UNCHANGED <<replicaVars, convVars, connVars, dataVars>>

\* the condition under which the messageHandler of a request of this type
\* and id acts on the message data
messageHandler(type, id, data) ==
  IF type = "push" THEN data.type = "ack"
  ELSE IF type = "pull" THEN data.type = "operations" /\ data.id = id
  ELSE data.type = "reconcile-response" /\ data.id = id

\* the registered handlers that act on data
Acting(data) ==
  { id \in DOMAIN requests :
      requests[id].handler /\ messageHandler(requests[id].type, id, data) }

RECURSIVE Online(_)
\* one "online" for each acting handler of a push or a reconcile
Online(ids) ==
  IF ids = {} THEN <<>>
  ELSE LET id == CHOOSE x \in ids : TRUE
       IN  (IF requests[id].type = "pull" THEN <<>> ELSE <<"online">>)
             \o Online(ids \ {id})

\* ws.onmessage: one operation of an "operations" message is offered to
\* operationQueue, whatever requestId the message carries
offered(data) == IF data.type = "operations" THEN 1 ELSE 0

\* the socket receives a message: ws.onmessage runs and so does every
\* registered messageHandler; one that acts clears its timer, removes
\* itself, offers "online" (push, reconcile) and calls resume
onmessage(data) ==
  /\ Len(received) < MaxMessages
  /\ data.id \in DOMAIN requests
  /\ received' = Append(received, data)
  /\ requests' =
       [id \in DOMAIN requests |->
          IF id \in Acting(data)
            THEN [requests[id] EXCEPT
                    !.timer = FALSE, !.handler = FALSE,
                    !.state = IF @ = "pending" THEN "succeeded" ELSE @,
                    !.by = IF requests[id].state = "pending" THEN data ELSE @]
            ELSE requests[id]]
  /\ statusQueue' = statusQueue \o Online(Acting(data))
  /\ operationQueue' = operationQueue + offered(data)
  /\ UNCHANGED wire
  /\ UNCHANGED <<replicaVars, convVars, connVars, dataVars>>

\* the socket receives an "operations" message of one operation that
\* answers no request (a server broadcast): no messageHandler acts
onmessage_broadcast ==
  /\ operationQueue < MaxMessages
  /\ operationQueue' = operationQueue + offered([type |-> "operations", id |-> 0])
  /\ UNCHANGED <<requests, statusQueue, received, wire>>
  /\ UNCHANGED <<replicaVars, convVars, connVars, dataVars>>

SyncNext ==
  \/ \E sendOk \in BOOLEAN : push(sendOk)
  \/ \E sendOk \in BOOLEAN : pull(sendOk)
  \/ \E sendOk \in BOOLEAN : reconcile(sendOk)
  \/ \E id \in 1..MaxRequests : timeout(id)
  \/ \E data \in Messages : onmessage(data)
  \/ onmessage_broadcast

\* ------------------------------------ the engine's connection: the steps
\* (the offers of "online" and "offline" to statusQueue are left out)

maxReconnectAttempts == 5

\* onclose schedules a reconnect whatever closed the socket
mayReconnect_always(attempts) == TRUE

\* if (reconnectAttempts < maxReconnectAttempts)
mayReconnect(attempts) == attempts < maxReconnectAttempts

\* setTimeout(.., 1000 * reconnectAttempts)
backoff(attempts) == 1000 * attempts

\* ws = new WebSocket(url): the socket is created, or the constructor
\* throws (INIT_ERROR) and ws keeps what it held
newWebSocket(created) ==
  /\ socket' = IF created THEN "connecting" ELSE socket
  /\ ws' = IF created THEN TRUE ELSE ws

\* connect() called by the application while the engine has no socket and
\* no reconnect pending
connect(created) ==
  /\ socket = "none"
  /\ reconnectTimer = NoTimer
  /\ newWebSocket(created)
  /\ connLog' = [connLog EXCEPT !.disconnected = FALSE]
  /\ UNCHANGED <<reconnectAttempts, reconnectTimer>>
  /\ UNCHANGED <<replicaVars, convVars, requestVars, dataVars>>

\* ws.onopen
onopen ==
  /\ socket = "connecting"
  /\ socket' = "open"
  /\ reconnectAttempts' = 0
  /\ connLog' = [connLog EXCEPT !.sinceOpen = 0]
  /\ UNCHANGED <<ws, reconnectTimer>>
  /\ UNCHANGED <<replicaVars, convVars, requestVars, dataVars>>

\* ws.onclose: the connection attempt failed, the open socket was closed by
\* the other side, or close() was called on it
onclose ==
  /\ socket \in {"connecting", "open", "closing"}
  /\ socket' = "none"
  /\ reconnectTimer' = IF mayReconnect(reconnectAttempts)
                         THEN backoff(reconnectAttempts)
                         ELSE reconnectTimer
  /\ UNCHANGED <<ws, reconnectAttempts, connLog>>
  /\ UNCHANGED <<replicaVars, convVars, requestVars, dataVars>>

\* the reconnect timer fires: reconnectAttempts++; connect()
reconnect(created) ==
  /\ reconnectTimer # NoTimer
  /\ reconnectAttempts' = reconnectAttempts + 1
  /\ newWebSocket(created)
  /\ reconnectTimer' = NoTimer
  /\ connLog' = [connLog EXCEPT !.sinceOpen = @ + 1, !.delay = reconnectTimer]
  /\ UNCHANGED <<replicaVars, convVars, requestVars, dataVars>>

\* disconnect(): if (ws) { ws.close(); ws = null }
disconnect ==
  /\ socket' = IF ws /\ socket \in {"connecting", "open"} THEN "closing" ELSE socket
  /\ ws' = FALSE
  /\ connLog' = [connLog EXCEPT !.disconnected = TRUE]
  /\ UNCHANGED <<reconnectAttempts, reconnectTimer>>
  /\ UNCHANGED <<replicaVars, convVars, requestVars, dataVars>>

\* a request that registers its handler before it looks at the socket
failNotConnected_registers(type) ==
  [Request(type, FALSE, "NOT_CONNECTED") EXCEPT !.handler = TRUE]

\* return yield* new SyncError({code: "NOT_CONNECTED"}): the call ends before
\* it offers a status, sends or registers anything
failNotConnected(type) == Request(type, FALSE, "NOT_CONNECTED")

\* push, pull or reconcile called while the socket is absent or not open
request_notConnected(type) ==
  /\ notConnected
  /\ Len(requests) < MaxRequests
  /\ requests' = Append(requests, failNotConnected(type))
  /\ UNCHANGED <<statusQueue, received, operationQueue, wire>>
  /\ UNCHANGED <<replicaVars, convVars, connVars, dataVars>>

\* The connection of the engine and the requests made on it.
ConnNext ==
  \/ \E created \in BOOLEAN : connect(created)
  \/ onopen
  \/ onclose
  \/ \E created \in BOOLEAN : reconnect(created)
  \/ disconnect
  \/ \E sendOk \in BOOLEAN : push(sendOk)
  \/ \E sendOk \in BOOLEAN : pull(sendOk)
  \/ \E sendOk \in BOOLEAN : reconcile(sendOk)
  \/ \E type \in {"push", "pull", "reconcile"} : request_notConnected(type)

\* ------------------------ the engine's socket and the replication loop

\* The facade and the replication loop of LocalFirstLive next to the socket
\* of the engine they use, while the transport stays connected and the
\* storage accepts every write: the loop never ends.
BroadcastNext ==
  \/ onmessage_broadcast
  \/ \E name \in Keys, value \in Values : setWithSync_set(name, value, TRUE)
  \/ setWithSync_push("sent")
  \/ setWithSync_done("ack")
  \/ setWithSync_return
  \/ \E size \in 0..MaxBatch : pullLoop_pull(size)
  \/ \E operation \in RemoteOps : pullLoop_apply(operation, TRUE)
  \/ pullLoop_sleep

\* --------------------------------------------------------- LWWRegister

MaxTime == 1

\* the values Date.now() and the timestamp arguments take
Timestamps == 0..MaxTime

\* replica ids are strings, compared with > as JavaScript compares them
ReplicaIds == {"a", "b"}

replicaIdGreater(x, y) == x = "b" /\ y = "a"

NoRegister == [value |-> Absent, timestamp |-> 0, replicaId |-> "none"]

\* new LWWRegister(value, timestamp, replicaId)
LWWRegister(value, timestamp, replicaId) ==
  [value |-> value, timestamp |-> timestamp, replicaId |-> replicaId]

Registers ==
  {LWWRegister(value, timestamp, replicaId) :
     value \in Values, timestamp \in Timestamps, replicaId \in ReplicaIds}

\* this.merge(other)
lww_merge(this, other) ==
  IF this.timestamp > other.timestamp THEN this
  ELSE IF this.timestamp < other.timestamp THEN other
  ELSE IF replicaIdGreater(this.replicaId, other.replicaId) THEN this
  ELSE other

LWWIdle ==
  lww = [a |-> NoRegister, b |-> NoRegister, ab |-> NoRegister, ba |-> NoRegister]

\* any two registers
LWWInit ==
  \E a \in Registers, b \in Registers :
    lww = [a |-> a, b |-> b, ab |-> NoRegister, ba |-> NoRegister]

\* a.merge(b) and b.merge(a)
LWWRegister_merge ==
  /\ lww.ab = NoRegister
  /\ lww' = [lww EXCEPT !.ab = lww_merge(lww.a, lww.b),
                        !.ba = lww_merge(lww.b, lww.a)]
  /\ UNCHANGED <<orMap, rga, tombstoneSet, moreVars>>
  /\ UNCHANGED <<replicaVars, convVars, syncVars, extraVars>>

\* a.set(value, replicaId) at time now: the register is replaced
LWWRegister_set(value, replicaId, now) ==
  /\ lww.ab = NoRegister
  /\ lww' = [lww EXCEPT !.a = LWWRegister(value, now, replicaId)]
  /\ UNCHANGED <<orMap, rga, tombstoneSet, moreVars>>
  /\ UNCHANGED <<replicaVars, convVars, syncVars, extraVars>>

LWWNext ==
  \/ LWWRegister_merge
  \/ \E value \in Values, replicaId \in ReplicaIds, now \in Timestamps :
       LWWRegister_set(value, replicaId, now)

\* --------------------------------------------------------------- ORMap

\* Option.none() in the removed field of an entry
NoneRemoved == -1

NoEntry == [value |-> Absent, added |-> 0, removed |-> NoneRemoved]

\* new ORMapEntry(value, added, removed)
ORMapEntry(value, added, removed) ==
  [value |-> value, added |-> added, removed |-> removed]

\* the entries put and remove produce: remove stamps a later Date.now()
\* than the put it removes, or the same one
Entries ==
  {ORMapEntry(value, added, removed) :
     value \in Values, added \in Timestamps,
     removed \in {NoneRemoved} \cup Timestamps} \ 
  {e \in [value : Values, added : Timestamps, removed : Timestamps] :
     e.removed < e.added}

ORMaps == [Keys -> Entries \cup {NoEntry}]

\* entry.isVisible()
isVisible(entry) == entry.removed = NoneRemoved

\* Option.getOrElse(entry.removed, () => entry.added)
latest(entry) == IF entry.removed = NoneRemoved THEN entry.added ELSE entry.removed

\* this.merge(other), key by key
orMap_merge(this, other) ==
  [key \in Keys |->
     IF other[key] = NoEntry THEN this[key]
     ELSE IF this[key] = NoEntry THEN other[key]
     ELSE IF latest(other[key]) > latest(this[key]) THEN other[key]
     ELSE this[key]]

\* toRecord(): the visible keys and their values
toRecord(map) ==
  [key \in {k \in Keys : map[k] # NoEntry /\ isVisible(map[k])} |-> map[key].value]

NoMap == [key \in Keys |-> NoEntry]

ORMapIdle == orMap = [a |-> NoMap, b |-> NoMap, merged |-> FALSE, ab |-> NoMap, ba |-> NoMap]

\* any two maps
ORMapInit ==
  \E a \in ORMaps, b \in ORMaps :
    orMap = [a |-> a, b |-> b, merged |-> FALSE, ab |-> NoMap, ba |-> NoMap]

\* a.merge(b) and b.merge(a)
ORMap_merge ==
  /\ ~orMap.merged
  /\ orMap' = [orMap EXCEPT !.merged = TRUE,
                            !.ab = orMap_merge(orMap.a, orMap.b),
                            !.ba = orMap_merge(orMap.b, orMap.a)]
  /\ UNCHANGED <<lww, rga, tombstoneSet, moreVars>>
  /\ UNCHANGED <<replicaVars, convVars, syncVars, extraVars>>

\* a.put(key, value) at time now
ORMap_put(key, value, now) ==
  /\ ~orMap.merged
  /\ orMap' = [orMap EXCEPT !.a[key] = ORMapEntry(value, now, NoneRemoved)]
  /\ UNCHANGED <<lww, rga, tombstoneSet, moreVars>>
  /\ UNCHANGED <<replicaVars, convVars, syncVars, extraVars>>

\* a.remove(key) at time now, not earlier than the put
ORMap_remove(key, now) ==
  /\ ~orMap.merged
  /\ orMap.a[key] # NoEntry
  /\ isVisible(orMap.a[key])
  /\ now >= orMap.a[key].added
  /\ orMap' = [orMap EXCEPT !.a[key].removed = now]
  /\ UNCHANGED <<lww, rga, tombstoneSet, moreVars>>
  /\ UNCHANGED <<replicaVars, convVars, syncVars, extraVars>>

ORMapNext ==
  \/ ORMap_merge
  \/ \E key \in Keys, value \in Values, now \in Timestamps : ORMap_put(key, value, now)
  \/ \E key \in Keys, now \in Timestamps : ORMap_remove(key, now)

\* ----------------------------------------------------------------- RGA

MaxOps == 3

MaxRand == 1

\* A position is a dotted decimal string: the model keeps its numbers and
\* writes the string out where the code compares strings.
NoPosition == <<>>

\* one character of a position string by its place in the collation order:
\* "." before "0" before "1" ..
Dot == 0

RECURSIVE digits(_)
\* n.toString()
digits(n) == IF n < 10 THEN <<n + 1>> ELSE digits(n \div 10) \o <<(n % 10) + 1>>

RECURSIVE join(_)
\* parts.join(".")
join(parts) ==
  IF Len(parts) = 1 THEN digits(parts[1])
  ELSE digits(Head(parts)) \o <<Dot>> \o join(Tail(parts))

RECURSIVE compareStrings(_, _)
compareStrings(x, y) ==
  IF x = <<>> /\ y = <<>> THEN 0
  ELSE IF x = <<>> THEN -1
  ELSE IF y = <<>> THEN 1
  ELSE IF Head(x) < Head(y) THEN -1
  ELSE IF Head(x) > Head(y) THEN 1
  ELSE compareStrings(Tail(x), Tail(y))

\* a.position.localeCompare(b.position)
localeCompare(x, y) == compareStrings(join(x), join(y))

calculatePositionBefore(pos) ==
  LET positive == {i \in DOMAIN pos : pos[i] > 0}
  IN  IF positive = {} THEN <<0, 0>>
      ELSE LET i == CHOOSE k \in positive : \A j \in positive : j <= k
           IN  [j \in DOMAIN pos |->
                  IF j < i THEN pos[j] ELSE IF j = i THEN pos[j] - 1 ELSE 0]

calculatePositionAfter(pos) ==
  [pos EXCEPT ![Len(pos)] = @ + 1]

calculatePositionBetween(prevPos, nextPos) ==
  LET shorter == IF Len(prevPos) < Len(nextPos) THEN Len(prevPos) ELSE Len(nextPos)
      commonLength ==
        Cardinality({n \in 1..shorter : \A j \in 1..n : prevPos[j] = nextPos[j]})
  IN  IF commonLength = Len(prevPos)
        THEN IF commonLength < Len(nextPos) /\ nextPos[commonLength + 1] > 0
               THEN prevPos \o <<0>>
               ELSE prevPos \o <<0, 1>>
      ELSE IF commonLength = Len(nextPos)
        THEN prevPos \o <<0>>
      ELSE LET prevValue == prevPos[commonLength + 1]
               nextValue == nextPos[commonLength + 1]
           IN  IF nextValue > prevValue + 1
                 THEN SubSeq(prevPos, 1, commonLength)
                        \o <<(prevValue + nextValue) \div 2>>
               ELSE IF commonLength + 1 < Len(prevPos)
                 THEN prevPos \o <<0>>
               ELSE prevPos \o <<5>>

generatePositionBetween(prevPos, nextPos) ==
  IF prevPos = NoPosition /\ nextPos = NoPosition THEN <<0, 0>>
  ELSE IF prevPos = NoPosition THEN calculatePositionBefore(nextPos)
  ELSE IF nextPos = NoPosition THEN calculatePositionAfter(prevPos)
  ELSE calculatePositionBetween(prevPos, nextPos)

\* `${replicaId}:${timestamp}:${random}`
generateId(replicaId, timestamp, rand) == <<replicaId, timestamp, rand>>

RGAElement(id, value, timestamp, replicaId, position) ==
  [id |-> id, value |-> value, timestamp |-> timestamp,
   replicaId |-> replicaId, position |-> position]

\* A Map is the sequence of its entries in insertion order.
\* new Map(elements).set(element.id, element)
mapSet(elements, element) ==
  IF \E i \in DOMAIN elements : elements[i].id = element.id
    THEN [i \in DOMAIN elements |->
            IF elements[i].id = element.id THEN element ELSE elements[i]]
    ELSE Append(elements, element)

\* newElements.delete(id)
mapDelete(elements, id) ==
  SelectSeq(elements, LAMBDA element : element.id # id)

\* sort, which is stable, puts element behind what does not compare greater
insertSorted(sorted, element) ==
  LET k == Cardinality({i \in DOMAIN sorted :
                          localeCompare(sorted[i].position, element.position) <= 0})
  IN  SubSeq(sorted, 1, k) \o <<element>> \o SubSeq(sorted, k + 1, Len(sorted))

RECURSIVE sortByPosition(_)
\* allElements.sort((a, b) => a.position.localeCompare(b.position))
sortByPosition(elements) ==
  IF elements = <<>> THEN <<>>
  ELSE insertSorted(sortByPosition(SubSeq(elements, 1, Len(elements) - 1)),
                    elements[Len(elements)])

rga_toArray(elements) ==
  LET allElements == sortByPosition(elements)
  IN  [i \in DOMAIN allElements |-> allElements[i].value]

rga_append(elements, value, replicaId, timestamp, rand) ==
  LET allElements == sortByPosition(elements)
      lastPos == IF Len(allElements) > 0
                   THEN allElements[Len(allElements)].position ELSE NoPosition
      position == generatePositionBetween(lastPos, NoPosition)
  IN  mapSet(elements, RGAElement(generateId(replicaId, timestamp, rand),
                                  value, timestamp, replicaId, position))

rga_insertAt(elements, index, value, replicaId, timestamp, rand) ==
  LET allElements == sortByPosition(elements)
      prevPos == IF index <= 0 THEN NoPosition
                 ELSE IF index >= Len(allElements)
                   THEN IF Len(allElements) > 0
                          THEN allElements[Len(allElements)].position
                          ELSE NoPosition
                 ELSE allElements[index].position
      nextPos == IF index <= 0
                   THEN IF Len(allElements) > 0
                          THEN allElements[1].position ELSE NoPosition
                 ELSE IF index >= Len(allElements) THEN NoPosition
                 ELSE allElements[index + 1].position
      position == generatePositionBetween(prevPos, nextPos)
  IN  mapSet(elements, RGAElement(generateId(replicaId, timestamp, rand),
                                  value, timestamp, replicaId, position))

rga_removeAt(elements, index) ==
  LET allElements == sortByPosition(elements)
  IN  IF index < 0 \/ index >= Len(allElements) THEN elements
      ELSE mapDelete(elements, allElements[index + 1].id)

RECURSIVE rga_mergeInto(_, _)
\* the loop of merge over other.elements
rga_mergeInto(mergedElements, others) ==
  IF others = <<>> THEN mergedElements
  ELSE LET otherElement == Head(others)
           known == {i \in DOMAIN mergedElements :
                       mergedElements[i].id = otherElement.id}
           next ==
             IF known = {} THEN Append(mergedElements, otherElement)
             ELSE LET thisElement == mergedElements[CHOOSE i \in known : TRUE]
                  IN  IF \/ otherElement.timestamp > thisElement.timestamp
                         \/ /\ otherElement.timestamp = thisElement.timestamp
                            /\ replicaIdGreater(otherElement.replicaId,
                                                thisElement.replicaId)
                        THEN mapSet(mergedElements, otherElement)
                        ELSE mergedElements
       IN  rga_mergeInto(next, Tail(others))

\* this.merge(other)
rga_merge(this, other) == rga_mergeInto(this, other)

\* RGA.empty() on replica a and on replica b
RGAInit ==
  rga = [a |-> <<>>, b |-> <<>>, ops |-> 0, merged |-> FALSE,
         ab |-> <<>>, ba |-> <<>>]

\* Date.now() of a replica does not run behind what the replica stamped
clockOf(elements, replicaId, now) ==
  \A i \in DOMAIN elements :
    elements[i].replicaId = replicaId => elements[i].timestamp <= now

\* replica.append(value, replica)
RGA_append(replica, value, now, rand) ==
  /\ ~rga.merged
  /\ rga.ops < MaxOps
  /\ clockOf(rga[replica], replica, now)
  /\ rga' = [rga EXCEPT ![replica] = rga_append(@, value, replica, now, rand),
                        !.ops = @ + 1]
  /\ UNCHANGED <<lww, orMap, tombstoneSet, moreVars>>
  /\ UNCHANGED <<replicaVars, convVars, syncVars, extraVars>>

\* replica.insertAt(index, value, replica)
RGA_insertAt(replica, index, value, now, rand) ==
  /\ ~rga.merged
  /\ rga.ops < MaxOps
  /\ index \in 0..Len(rga[replica])
  /\ clockOf(rga[replica], replica, now)
  /\ rga' = [rga EXCEPT ![replica] = rga_insertAt(@, index, value, replica, now, rand),
                        !.ops = @ + 1]
  /\ UNCHANGED <<lww, orMap, tombstoneSet, moreVars>>
  /\ UNCHANGED <<replicaVars, convVars, syncVars, extraVars>>

\* replica.removeAt(index)
RGA_removeAt(replica, index) ==
  /\ ~rga.merged
  /\ rga.ops < MaxOps
  /\ index \in 0..(Len(rga[replica]) - 1)
  /\ rga' = [rga EXCEPT ![replica] = rga_removeAt(@, index),
                        !.ops = @ + 1]
  /\ UNCHANGED <<lww, orMap, tombstoneSet, moreVars>>
  /\ UNCHANGED <<replicaVars, convVars, syncVars, extraVars>>

\* a.merge(b) and b.merge(a)
RGA_merge ==
  /\ ~rga.merged
  /\ rga' = [rga EXCEPT !.merged = TRUE,
                        !.ab = rga_merge(rga.a, rga.b),
                        !.ba = rga_merge(rga.b, rga.a)]
  /\ UNCHANGED <<lww, orMap, tombstoneSet, moreVars>>
  /\ UNCHANGED <<replicaVars, convVars, syncVars, extraVars>>

RGANext ==
  \/ \E replica \in ReplicaIds, value \in Values, now \in Timestamps,
        rand \in 0..MaxRand : RGA_append(replica, value, now, rand)
  \/ \E replica \in ReplicaIds, index \in 0..MaxOps, value \in Values,
        now \in Timestamps, rand \in 0..MaxRand :
       RGA_insertAt(replica, index, value, now, rand)
  \/ \E replica \in ReplicaIds, index \in 0..MaxOps : RGA_removeAt(replica, index)
  \/ RGA_merge

MaxAppends == 11

\* array = array.append(value, "a"), again and again on one replica whose
\* Date.now() advances between the calls
RGA_appendNext(value) ==
  /\ Len(rga.a) < MaxAppends
  /\ rga' = [rga EXCEPT !.a = rga_append(@, value, "a", Len(@), 0)]
  /\ UNCHANGED <<lww, orMap, tombstoneSet, moreVars>>
  /\ UNCHANGED <<replicaVars, convVars, syncVars, extraVars>>

RGAAppendNext == \E value \in Values : RGA_appendNext(value)

\* -------------------------------------------------------- TombstoneSet

ElementIds == {"x", "y"}

NoElement == [value |-> Absent, timestamp |-> 0, replicaId |-> "none"]

NoTombstone == [timestamp |-> 0, replicaId |-> "none"]

\* TombstoneSet.empty()
emptySet ==
  [elements |-> [id \in ElementIds |-> NoElement],
   tombstones |-> [id \in ElementIds |-> NoTombstone]]

\* this.add(id, value, timestamp, replicaId)
ts_add(this, id, value, timestamp, replicaId) ==
  IF this.tombstones[id] # NoTombstone /\ this.tombstones[id].timestamp >= timestamp
    THEN this
    ELSE [this EXCEPT !.elements[id] =
            [value |-> value, timestamp |-> timestamp, replicaId |-> replicaId]]

\* this.remove(id, timestamp, replicaId)
ts_remove(this, id, timestamp, replicaId) ==
  IF this.elements[id] # NoElement /\ this.elements[id].timestamp > timestamp
    THEN this
    ELSE [this EXCEPT !.tombstones[id] =
                         [timestamp |-> timestamp, replicaId |-> replicaId],
                      !.elements[id] = NoElement]

\* this.has(id)
has(this, id) ==
  /\ this.elements[id] # NoElement
  /\ \/ this.tombstones[id] = NoTombstone
     \/ this.elements[id].timestamp > this.tombstones[id].timestamp

\* this.values(), without their order
values(this) ==
  {[id |-> id, value |-> this.elements[id].value] : id \in {i \in ElementIds : has(this, i)}}

\* the entry merge keeps of mine and other's: the later one, the greater
\* replicaId at the same timestamp
later(mine, other, none) ==
  IF other = none THEN mine
  ELSE IF mine = none THEN other
  ELSE IF \/ other.timestamp > mine.timestamp
          \/ /\ other.timestamp = mine.timestamp
             /\ replicaIdGreater(other.replicaId, mine.replicaId)
    THEN other
  ELSE mine

\* a merge that leaves every element in place
dominated_never(tombstone, element) == FALSE

\* if (tombstone && tombstone.timestamp > element.timestamp)
dominated(tombstone, element) ==
  /\ tombstone # NoTombstone
  /\ element # NoElement
  /\ tombstone.timestamp > element.timestamp

\* this.merge(other)
ts_merge(this, other) ==
  LET mergedElements ==
        [id \in ElementIds |-> later(this.elements[id], other.elements[id], NoElement)]
      mergedTombstones ==
        [id \in ElementIds |-> later(this.tombstones[id], other.tombstones[id], NoTombstone)]
      keptElements ==
        [id \in ElementIds |->
           IF dominated(mergedTombstones[id], mergedElements[id])
             THEN NoElement ELSE mergedElements[id]]
      keptTombstones ==
        [id \in ElementIds |->
           IF /\ keptElements[id] # NoElement
              /\ mergedTombstones[id] # NoTombstone
              /\ keptElements[id].timestamp > mergedTombstones[id].timestamp
             THEN NoTombstone ELSE mergedTombstones[id]]
  IN  [elements |-> keptElements, tombstones |-> keptTombstones]

SetNames == {"a", "b", "c"}

TombstoneSetInit ==
  tombstoneSet = [a |-> emptySet, b |-> emptySet, c |-> emptySet,
                  ops |-> 0, merged |-> FALSE,
                  left |-> emptySet, right |-> emptySet, swapped |-> emptySet]

\* set.add(id, value, timestamp, replicaId)
TombstoneSet_add(set, id, value, timestamp, replicaId) ==
  /\ ~tombstoneSet.merged
  /\ tombstoneSet.ops < MaxOps
  /\ tombstoneSet' = [tombstoneSet EXCEPT
                        ![set] = ts_add(@, id, value, timestamp, replicaId),
                        !.ops = @ + 1]
  /\ UNCHANGED <<lww, orMap, rga, moreVars>>
  /\ UNCHANGED <<replicaVars, convVars, syncVars, extraVars>>

\* set.remove(id, timestamp, replicaId)
TombstoneSet_remove(set, id, timestamp, replicaId) ==
  /\ ~tombstoneSet.merged
  /\ tombstoneSet.ops < MaxOps
  /\ tombstoneSet' = [tombstoneSet EXCEPT
                        ![set] = ts_remove(@, id, timestamp, replicaId),
                        !.ops = @ + 1]
  /\ UNCHANGED <<lww, orMap, rga, moreVars>>
  /\ UNCHANGED <<replicaVars, convVars, syncVars, extraVars>>

\* a.merge(b).merge(c), a.merge(b.merge(c)) and b.merge(a).merge(c)
TombstoneSet_merge ==
  /\ ~tombstoneSet.merged
  /\ tombstoneSet' = [tombstoneSet EXCEPT
       !.merged = TRUE,
       !.left = ts_merge(ts_merge(tombstoneSet.a, tombstoneSet.b), tombstoneSet.c),
       !.right = ts_merge(tombstoneSet.a, ts_merge(tombstoneSet.b, tombstoneSet.c)),
       !.swapped = ts_merge(ts_merge(tombstoneSet.b, tombstoneSet.a), tombstoneSet.c)]
  /\ UNCHANGED <<lww, orMap, rga, moreVars>>
  /\ UNCHANGED <<replicaVars, convVars, syncVars, extraVars>>

\* set = set.merge(other)
TombstoneSet_sync(set, other) ==
  /\ ~tombstoneSet.merged
  /\ tombstoneSet.ops < MaxOps
  /\ set # other
  /\ tombstoneSet' = [tombstoneSet EXCEPT
                        ![set] = ts_merge(@, tombstoneSet[other]),
                        !.ops = @ + 1]
  /\ UNCHANGED <<lww, orMap, rga, moreVars>>
  /\ UNCHANGED <<replicaVars, convVars, syncVars, extraVars>>

\* two replicas of one set that add, remove and merge each other's state
SyncNames == {"a", "b"}

TombstoneSyncNext ==
  \/ \E set \in SyncNames, id \in ElementIds, value \in Values,
        timestamp \in Timestamps, replicaId \in ReplicaIds :
       TombstoneSet_add(set, id, value, timestamp, replicaId)
  \/ \E set \in SyncNames, id \in ElementIds,
        timestamp \in Timestamps, replicaId \in ReplicaIds :
       TombstoneSet_remove(set, id, timestamp, replicaId)
  \/ \E set \in SyncNames, other \in SyncNames : TombstoneSet_sync(set, other)

TombstoneSetNext ==
  \/ \E set \in SetNames, id \in ElementIds, value \in Values,
        timestamp \in Timestamps, replicaId \in ReplicaIds :
       TombstoneSet_add(set, id, value, timestamp, replicaId)
  \/ \E set \in SetNames, id \in ElementIds,
        timestamp \in Timestamps, replicaId \in ReplicaIds :
       TombstoneSet_remove(set, id, timestamp, replicaId)
  \/ TombstoneSet_merge

\* --------------------------------------------------------- VectorClock

MaxCount == 2

\* the clocks increment builds: a replica is absent or has counted at least 1
Clocks == UNION { [S -> 1..MaxCount] : S \in SUBSET Ids }

ClocksIdle ==
  clocks = [a |-> emptyClock, b |-> emptyClock, compared |-> FALSE,
            ab |-> Equal, ba |-> Equal, incremented |-> FALSE]

\* any two clocks
ClocksInit ==
  \E a \in Clocks, b \in Clocks :
    clocks = [a |-> a, b |-> b, compared |-> FALSE,
              ab |-> Equal, ba |-> Equal, incremented |-> FALSE]

\* a.compare(b) and b.compare(a)
VectorClock_compare ==
  /\ ~clocks.compared
  /\ clocks' = [clocks EXCEPT !.compared = TRUE,
                              !.ab = compare(clocks.a, clocks.b),
                              !.ba = compare(clocks.b, clocks.a)]
  /\ UNCHANGED <<crdtVars, pnCounter, twoPhaseSet, orderedSet, hub>>
  /\ UNCHANGED <<replicaVars, convVars, syncVars, extraVars>>

\* b = a.increment(replicaId)
VectorClock_increment(replicaId) ==
  /\ ~clocks.compared
  /\ ~clocks.incremented
  /\ clocks' = [clocks EXCEPT !.b = increment(clocks.a, replicaId),
                              !.incremented = TRUE]
  /\ UNCHANGED <<crdtVars, pnCounter, twoPhaseSet, orderedSet, hub>>
  /\ UNCHANGED <<replicaVars, convVars, syncVars, extraVars>>

ClocksNext ==
  \/ VectorClock_compare
  \/ \E replicaId \in Ids : VectorClock_increment(replicaId)

\* ----------------------------------------------------------- PNCounter

MaxBy == 2

\* A Map of counts is a function of the replica ids, 0 where the Map has no
\* entry: value and merge read a missing entry as 0.
noCounts == [replicaId \in Replicas |-> 0]

\* PNCounter.empty()
emptyCounter == [increments |-> noCounts, decrements |-> noCounts]

\* this.increment(replicaId, by)
pn_increment(this, replicaId, by) ==
  [this EXCEPT !.increments[replicaId] = @ + by]

\* this.decrement(replicaId, by)
pn_decrement(this, replicaId, by) ==
  [this EXCEPT !.decrements[replicaId] = @ + by]

\* this.value()
pn_value(this) ==
  Sum(this.increments, Replicas) - Sum(this.decrements, Replicas)

\* a merge that adds the two counts
mergeCount_sum(current, count) == current + count

\* Math.max(current, count)
mergeCount(current, count) == IF current > count THEN current ELSE count

\* this.merge(other)
pn_merge(this, other) ==
  [increments |-> [replicaId \in Replicas |->
                     mergeCount(this.increments[replicaId], other.increments[replicaId])],
   decrements |-> [replicaId \in Replicas |->
                     mergeCount(this.decrements[replicaId], other.decrements[replicaId])]]

MaxMerges == 1

\* PNCounter.empty() on every replica; nothing counted yet
PNCounterInit ==
  pnCounter = [counters |-> [replica \in Replicas |-> emptyCounter],
               ops |-> 0, merges |-> 0, incremented |-> 0, decremented |-> 0]

\* replica increments under its own id
PNCounter_increment(replica, by) ==
  /\ pnCounter.ops < MaxOps
  /\ pnCounter' = [pnCounter EXCEPT
                     !.counters[replica] = pn_increment(@, replica, by),
                     !.ops = @ + 1,
                     !.incremented = @ + by]
  /\ UNCHANGED <<crdtVars, twoPhaseSet, orderedSet, clocks, hub>>
  /\ UNCHANGED <<replicaVars, convVars, syncVars, extraVars>>

\* replica decrements under its own id
PNCounter_decrement(replica, by) ==
  /\ pnCounter.ops < MaxOps
  /\ pnCounter' = [pnCounter EXCEPT
                     !.counters[replica] = pn_decrement(@, replica, by),
                     !.ops = @ + 1,
                     !.decremented = @ + by]
  /\ UNCHANGED <<crdtVars, twoPhaseSet, orderedSet, clocks, hub>>
  /\ UNCHANGED <<replicaVars, convVars, syncVars, extraVars>>

\* replica `into` merges the counter replica `from` holds
PNCounter_merge(into, from) ==
  /\ into # from
  /\ pnCounter.merges < MaxMerges
  /\ pnCounter' = [pnCounter EXCEPT
                     !.counters[into] = pn_merge(@, pnCounter.counters[from]),
                     !.merges = @ + 1]
  /\ UNCHANGED <<crdtVars, twoPhaseSet, orderedSet, clocks, hub>>
  /\ UNCHANGED <<replicaVars, convVars, syncVars, extraVars>>

PNCounterNext ==
  \/ \E replica \in Replicas, by \in 1..MaxBy : PNCounter_increment(replica, by)
  \/ \E replica \in Replicas, by \in 1..MaxBy : PNCounter_decrement(replica, by)
  \/ \E into \in Replicas, from \in Replicas : PNCounter_merge(into, from)

\* --------------------------------------------------------- TwoPhaseSet

\* TwoPhaseSet.empty()
emptyTwoPhaseSet == [additions |-> {}, removals |-> {}]

\* this.add(element)
tps_add(this, element) ==
  IF element \in this.removals THEN this
  ELSE [this EXCEPT !.additions = @ \cup {element}]

\* this.remove(element)
tps_remove(this, element) ==
  [this EXCEPT !.removals = @ \cup {element}]

\* this.has(element)
tps_has(this, element) ==
  element \in this.additions /\ element \notin this.removals

\* this.values(), without their order
tps_values(this) == {item \in this.additions : item \notin this.removals}

\* a merge that takes the removals of other alone
mergeRemovals_other(mine, other) == other

\* new Set([...this.removals, ...other.removals])
mergeRemovals(mine, other) == mine \cup other

\* this.merge(other)
tps_merge(this, other) ==
  [additions |-> this.additions \cup other.additions,
   removals |-> mergeRemovals(this.removals, other.removals)]

\* what was called on a set since remove(element) was called on it
NothingSince == [element \in Values |-> {}]

\* TwoPhaseSet.empty() on every replica; nothing removed yet
TwoPhaseSetInit ==
  twoPhaseSet = [sets |-> [replica \in ReplicaIds |-> emptyTwoPhaseSet],
                 removed |-> [replica \in ReplicaIds |-> {}],
                 since |-> [replica \in ReplicaIds |-> NothingSince]]

\* the calls made on the set of replica since its removes, with one more
Since(replica, call) ==
  [element \in Values |->
     IF element \in twoPhaseSet.removed[replica]
       THEN twoPhaseSet.since[replica][element] \cup {call}
       ELSE {}]

\* replica adds element
TwoPhaseSet_add(replica, element) ==
  /\ twoPhaseSet' = [twoPhaseSet EXCEPT
                       !.sets[replica] = tps_add(@, element),
                       !.since[replica][element] =
                          IF element \in twoPhaseSet.removed[replica]
                            THEN @ \cup {"add"} ELSE @]
  /\ UNCHANGED <<crdtVars, pnCounter, orderedSet, clocks, hub>>
  /\ UNCHANGED <<replicaVars, convVars, syncVars, extraVars>>

\* replica removes element
TwoPhaseSet_remove(replica, element) ==
  /\ twoPhaseSet' = [twoPhaseSet EXCEPT
                       !.sets[replica] = tps_remove(@, element),
                       !.removed[replica] = @ \cup {element}]
  /\ UNCHANGED <<crdtVars, pnCounter, orderedSet, clocks, hub>>
  /\ UNCHANGED <<replicaVars, convVars, syncVars, extraVars>>

\* replica `into` merges the set replica `from` holds
TwoPhaseSet_merge(into, from) ==
  /\ into # from
  /\ twoPhaseSet' = [twoPhaseSet EXCEPT
                       !.sets[into] = tps_merge(@, twoPhaseSet.sets[from]),
                       !.since[into] = Since(into, "merge")]
  /\ UNCHANGED <<crdtVars, pnCounter, orderedSet, clocks, hub>>
  /\ UNCHANGED <<replicaVars, convVars, syncVars, extraVars>>

TwoPhaseSetNext ==
  \/ \E replica \in ReplicaIds, element \in Values : TwoPhaseSet_add(replica, element)
  \/ \E replica \in ReplicaIds, element \in Values : TwoPhaseSet_remove(replica, element)
  \/ \E into \in ReplicaIds, from \in ReplicaIds : TwoPhaseSet_merge(into, from)

\* ---------------------------------------------------------- OrderedSet

\* OrderedSet.empty()
emptyOrderedSet ==
  [elements |-> [id \in ElementIds |-> NoElement], tombstones |-> {}]

\* this.add(id, value, timestamp, replicaId)
os_add(this, id, value, timestamp, replicaId) ==
  IF id \in this.tombstones THEN this
  ELSE [this EXCEPT !.elements[id] =
          [value |-> value, timestamp |-> timestamp, replicaId |-> replicaId]]

\* this.remove(id)
os_remove(this, id) == [this EXCEPT !.tombstones = @ \cup {id}]

\* this.has(id)
os_has(this, id) == this.elements[id] # NoElement /\ id \notin this.tombstones

\* a merge that takes the tombstones of other alone
mergeTombstones_other(mine, other) == other

\* new Set([...this.tombstones, ...other.tombstones])
mergeTombstones(mine, other) == mine \cup other

\* this.merge(other)
os_merge(this, other) ==
  [elements |-> [id \in ElementIds |->
                   later(this.elements[id], other.elements[id], NoElement)],
   tombstones |-> mergeTombstones(this.tombstones, other.tombstones)]

\* OrderedSet.empty() on every replica; nothing removed yet
OrderedSetInit ==
  orderedSet = [sets |-> [replica \in ReplicaIds |-> emptyOrderedSet],
                ops |-> 0,
                removed |-> [replica \in ReplicaIds |-> {}],
                since |-> [replica \in ReplicaIds |-> [id \in ElementIds |-> {}]]]

\* the set of replica adds id
OrderedSet_add(replica, id, value, timestamp, replicaId) ==
  /\ orderedSet.ops < MaxOps
  /\ orderedSet' = [orderedSet EXCEPT
                      !.sets[replica] = os_add(@, id, value, timestamp, replicaId),
                      !.ops = @ + 1,
                      !.since[replica][id] =
                         IF id \in orderedSet.removed[replica]
                           THEN @ \cup {"add"} ELSE @]
  /\ UNCHANGED <<crdtVars, pnCounter, twoPhaseSet, clocks, hub>>
  /\ UNCHANGED <<replicaVars, convVars, syncVars, extraVars>>

\* the set of replica removes id
OrderedSet_remove(replica, id) ==
  /\ orderedSet.ops < MaxOps
  /\ orderedSet' = [orderedSet EXCEPT
                      !.sets[replica] = os_remove(@, id),
                      !.ops = @ + 1,
                      !.removed[replica] = @ \cup {id}]
  /\ UNCHANGED <<crdtVars, pnCounter, twoPhaseSet, clocks, hub>>
  /\ UNCHANGED <<replicaVars, convVars, syncVars, extraVars>>

\* replica `into` merges the set replica `from` holds
OrderedSet_merge(into, from) ==
  /\ into # from
  /\ orderedSet' = [orderedSet EXCEPT
                      !.sets[into] = os_merge(@, orderedSet.sets[from]),
                      !.since[into] =
                         [id \in ElementIds |->
                            IF id \in orderedSet.removed[into]
                              THEN orderedSet.since[into][id] \cup {"merge"}
                              ELSE {}]]
  /\ UNCHANGED <<crdtVars, pnCounter, twoPhaseSet, clocks, hub>>
  /\ UNCHANGED <<replicaVars, convVars, syncVars, extraVars>>

OrderedSetNext ==
  \/ \E replica \in ReplicaIds, id \in ElementIds, value \in Values,
        timestamp \in Timestamps, replicaId \in ReplicaIds :
       OrderedSet_add(replica, id, value, timestamp, replicaId)
  \/ \E replica \in ReplicaIds, id \in ElementIds : OrderedSet_remove(replica, id)
  \/ \E into \in ReplicaIds, from \in ReplicaIds : OrderedSet_merge(into, from)

\* ------------------------------------------------------------------ Hub

MaxPublished == 3

Subscribers == {"s1", "s2"}

\* unbounded(): one Queue, no subscriber; messages are numbered as published
HubInit ==
  hub = [queue |-> <<>>, published |-> 0,
         subscribers |-> [s \in Subscribers |->
                            [subscribed |-> FALSE, since |-> 0, received |-> {}]]]

\* hub.publish(message): Queue.offer(queue, message)
Hub_publish ==
  /\ hub.published < MaxPublished
  /\ hub' = [hub EXCEPT !.published = @ + 1,
                        !.queue = Append(@, hub.published + 1)]
  /\ UNCHANGED <<crdtVars, pnCounter, twoPhaseSet, orderedSet, clocks>>
  /\ UNCHANGED <<replicaVars, convVars, syncVars, extraVars>>

\* hub.subscribe(), and the stream is run: Stream.fromQueue(queue)
Hub_subscribe(s) ==
  /\ ~hub.subscribers[s].subscribed
  /\ hub' = [hub EXCEPT !.subscribers[s].subscribed = TRUE,
                        !.subscribers[s].since = hub.published]
  /\ UNCHANGED <<crdtVars, pnCounter, twoPhaseSet, orderedSet, clocks>>
  /\ UNCHANGED <<replicaVars, convVars, syncVars, extraVars>>

\* the stream of s pulls: it takes what the queue holds, as one chunk
Hub_take(s) ==
  /\ hub.subscribers[s].subscribed
  /\ hub.queue # <<>>
  /\ hub' = [hub EXCEPT
               !.queue = <<>>,
               !.subscribers[s].received =
                  @ \cup {hub.queue[i] : i \in DOMAIN hub.queue}]
  /\ UNCHANGED <<crdtVars, pnCounter, twoPhaseSet, orderedSet, clocks>>
  /\ UNCHANGED <<replicaVars, convVars, syncVars, extraVars>>

HubNext ==
  \/ Hub_publish
  \/ \E s \in Subscribers : Hub_subscribe(s)
  \/ \E s \in Subscribers : Hub_take(s)

\* --------------------------------------------------------- LocalFirstLive

MaxInterval == 1

\* autoSyncInterval?: number, absent or a number of milliseconds
NoInterval == [present |-> FALSE, ms |-> 0]

Interval(ms) == [present |-> TRUE, ms |-> ms]

\* the values of LocalFirstConfig that LocalFirstLive reads
Configs ==
  [storage : {"indexeddb", "memory"},
   sync : {"websocket", "manual"},
   syncUrl : {Absent, "", "ws://server"},
   autoSyncInterval : {NoInterval} \cup {Interval(ms) : ms \in 0..MaxInterval},
   authorization : BOOLEAN]

\* a number in a condition: undefined and 0 are false
truthyNumber(interval) == interval.present /\ interval.ms # 0

\* a string in a condition: undefined and "" are false
truthyString(string) == string # Absent /\ string # ""

\* if (config.autoSyncInterval && config.sync !== "manual")
forksLoops(config, sync) ==
  truthyNumber(config.autoSyncInterval) /\ config.sync # "manual"

\* config.sync === "websocket" && config.syncUrl
\*   ? WebSocketSyncLive(config.syncUrl) : ManualSyncLive
provideSync(config) ==
  IF config.sync = "websocket" /\ truthyString(config.syncUrl)
    THEN "websocket" ELSE "manual"

\* config.storage === "indexeddb" ? IndexedDBLive : MemoryStorageLive
provideStorage(config) ==
  IF config.storage = "indexeddb" THEN "indexeddb" ELSE "memory"

NotBuilt(config) ==
  [config |-> config, built |-> FALSE, storage |-> "none", sync |-> "none",
   loops |-> FALSE, pullEvery |-> 0, reconcileEvery |-> 0]

LayerIdle ==
  layer = NotBuilt([storage |-> "memory", sync |-> "manual", syncUrl |-> Absent,
                    autoSyncInterval |-> NoInterval, authorization |-> FALSE])

\* any LocalFirstConfig
LayerInit == \E config \in Configs : layer = NotBuilt(config)

\* the layer LocalFirstLive(config) is built
LocalFirstLive ==
  /\ ~layer.built
  /\ LET config == layer.config
         sync == provideSync(config)
         loops == forksLoops(config, sync)
     IN  layer' = [layer EXCEPT
                     !.built = TRUE,
                     !.storage = provideStorage(config),
                     !.sync = sync,
                     !.loops = loops,
                     !.pullEvery = IF loops THEN config.autoSyncInterval.ms ELSE 0,
                     !.reconcileEvery =
                        IF loops THEN config.autoSyncInterval.ms * 5 ELSE 0]
  /\ UNCHANGED <<replicaVars, convVars, syncVars, crdtVars, moreVars>>
  /\ UNCHANGED <<reconciliationRequest, typed, sockets>>

LayerNext == LocalFirstLive

\* ------------------------------------- performReconciliation: the request

\* no round has built a request yet
NoRequest ==
  [replicaId |-> "none", operations |-> {}, clientState |-> NoClock]

RequestIdle == reconciliationRequest = NoRequest

\* performReconciliation at replica r up to sync.reconcile(request):
\* operations = yield* sync.pull(), the operations the server answers the
\* pull with, currentClock = yield* Ref.get(vectorClock), and the request
\* built of the two
replica_performReconciliation(r, operations) ==
  /\ operations \subseteq sent
  /\ LET currentClock == replicaClock[r]
     IN  reconciliationRequest' =
           [replicaId |-> r, operations |-> operations,
            clientState |-> currentClock]
  /\ UNCHANGED <<convVars, replicaVars, syncVars, crdtVars, moreVars>>
  /\ UNCHANGED <<layer, typed, sockets>>

\* two replicas that write and run reconciliation rounds
RequestNext ==
  \/ \E r \in Ids, name \in Keys, value \in Values :
       replica_setWithSync(r, name, value)
  \/ \E r \in Ids, operations \in SUBSET sent :
       replica_performReconciliation(r, operations)
\* ------------------------------------- GSetCollection.add and the pull loop

\* what a G-Set holds
Elements == {"e1", "e2"}

\* a slot that holds the G-Set of these elements
Stored(elements) == [present |-> TRUE, elements |-> elements]

\* a slot that holds nothing: storage.get fails with "Key not found"
Missing == [present |-> FALSE, elements |-> {}]

\* getOrCreateEmpty(self.get(), () => GSet.empty()): the G-Set of the slot,
\* or the empty one when get fails
getOrCreateEmpty(slot) == IF slot.present THEN slot.elements ELSE {}

\* this.add(element) of GSet
gset_add(elements, element) == elements \cup {element}

\* the set operations another replica emitted for its G-Set
RemoteSets ==
  { SetOp(k, Stored(elements), "b", c) :
      k \in Keys, elements \in SUBSET Elements \ {{}},
      c \in {c \in ClockPool : Get(c, "b") >= 1} }

\* IndexedDB answers every request by an event, so a fiber is suspended at
\* each storage call: add after get and after set, the pull loop after set.
\*   pc        where the fiber of add is: "idle", "got", "stored"
\*   current   the G-Set add read
\*   loop      where the pull loop is: "idle", or "set" with the operation
\*             it wrote and whose clock it has yet to assign
\*   remote    what applyOperations wrote to the slot since add read it
TypedInit ==
  typed = [storage |-> [k \in Keys |-> Missing], clock |-> emptyClock,
           pc |-> "idle", name |-> "k1", element |-> "e1", current |-> {},
           loop |-> "idle", operation |-> SetOp("k1", Missing, "b", emptyClock),
           remote |-> {}, written |-> FALSE, writes |-> 0]

\* add(element): const current = yield* getOrCreateEmpty(self.get(), ..)
GSetCollection_add_get(name, element) ==
  /\ typed.pc = "idle"
  /\ typed.writes < MaxWrites
  /\ typed' = [typed EXCEPT
                 !.pc = "got", !.name = name, !.element = element,
                 !.current = getOrCreateEmpty(typed.storage[name]),
                 !.remote = {}, !.written = FALSE]
  /\ UNCHANGED <<replicaVars, convVars, syncVars, crdtVars, moreVars>>
  /\ UNCHANGED <<layer, reconciliationRequest, sockets>>

\* const updated = current.add(element); setWithSync(self, updated):
\* yield* storage.set(collection.name, value)
GSetCollection_add_set ==
  /\ typed.pc = "got"
  /\ LET updated == gset_add(typed.current, typed.element)
     IN  typed' = [typed EXCEPT
                     !.pc = "stored",
                     !.storage[typed.name] = Stored(updated)]
  /\ UNCHANGED <<replicaVars, convVars, syncVars, crdtVars, moreVars>>
  /\ UNCHANGED <<layer, reconciliationRequest, sockets>>

\* the rest of setWithSync: Ref.get, increment, Ref.set, sync.push with its
\* failure caught
GSetCollection_add_push ==
  /\ typed.pc = "stored"
  /\ typed' = [typed EXCEPT
                 !.pc = "idle",
                 !.clock = increment(@, Self),
                 !.writes = @ + 1]
  /\ UNCHANGED <<replicaVars, convVars, syncVars, crdtVars, moreVars>>
  /\ UNCHANGED <<layer, reconciliationRequest, sockets>>

\* applyOperations on an operation the pull returned, up to the storage
\* write: the tests of replicaId and of the clock, then backend.set
applyOperations_set(operation) ==
  /\ typed.loop = "idle"
  /\ LET r == applyOperation(operation, typed.storage, typed.clock, Self, TRUE)
     IN  IF r.did = "applied"
           THEN typed' = [typed EXCEPT
                            !.loop = "set", !.operation = operation,
                            !.storage = r.storage,
                            !.remote = IF typed.pc = "got" /\ operation.key = typed.name
                                         THEN operation.value.elements ELSE @,
                            !.written = @ \/ (typed.pc = "got"
                                                /\ operation.key = typed.name)]
           ELSE typed' = typed
  /\ UNCHANGED <<replicaVars, convVars, syncVars, crdtVars, moreVars>>
  /\ UNCHANGED <<layer, reconciliationRequest, sockets>>

\* yield* Ref.set(vectorClock, operation.vectorClock)
applyOperations_setClock ==
  /\ typed.loop = "set"
  /\ typed' = [typed EXCEPT
                 !.loop = "idle",
                 !.clock = setVectorClock(@, typed.operation)]
  /\ UNCHANGED <<replicaVars, convVars, syncVars, crdtVars, moreVars>>
  /\ UNCHANGED <<layer, reconciliationRequest, sockets>>

TypedNext ==
  \/ \E name \in Keys, element \in Elements : GSetCollection_add_get(name, element)
  \/ GSetCollection_add_set
  \/ GSetCollection_add_push
  \/ \E operation \in RemoteSets : applyOperations_set(operation)
  \/ applyOperations_setClock


\* ------------------------- the engine's sockets, connect() at any time
\* The service exposes connect and disconnect; each socket keeps the
\* handlers connect() attached to it for as long as it can fire events.

\* a socket that can still deliver onopen or onmessage to its handlers
Live == {"connecting", "open"}

LiveSockets == {i \in DOMAIN sockets.list : sockets.list[i] \in Live}

\* The layer is constructed once its connect() has succeeded.
SocketsInit ==
  sockets = [list |-> <<"open">>, ws |-> 1, reconnectAttempts |-> 0, timers |-> 0]

\* ws = new WebSocket(url) with its four handlers, whatever ws held before;
\* or the constructor throws and ws keeps what it held
sockets_new(engine, created) ==
  IF created
    THEN [engine EXCEPT !.list = Append(@, "connecting"), !.ws = Len(engine.list) + 1]
    ELSE engine

\* connect() called by the application
sockets_connect(created) ==
  /\ Len(sockets.list) < MaxSockets
  /\ sockets' = sockets_new(sockets, created)
  /\ UNCHANGED <<layer, reconciliationRequest, typed>>
  /\ UNCHANGED <<replicaVars, convVars, syncVars, crdtVars, moreVars>>

\* onopen of socket i
sockets_onopen(i) ==
  /\ i \in DOMAIN sockets.list
  /\ sockets.list[i] = "connecting"
  /\ sockets' = [sockets EXCEPT !.list[i] = "open", !.reconnectAttempts = 0]
  /\ UNCHANGED <<layer, reconciliationRequest, typed>>
  /\ UNCHANGED <<replicaVars, convVars, syncVars, crdtVars, moreVars>>

\* onclose of socket i: its connection attempt failed, the other side
\* closed it, or close() was called on it
sockets_onclose(i) ==
  /\ i \in DOMAIN sockets.list
  /\ sockets.list[i] \in {"connecting", "open", "closing"}
  /\ sockets' = [sockets EXCEPT
                   !.list[i] = "closed",
                   !.timers = IF mayReconnect(sockets.reconnectAttempts)
                                THEN @ + 1 ELSE @]
  /\ UNCHANGED <<layer, reconciliationRequest, typed>>
  /\ UNCHANGED <<replicaVars, convVars, syncVars, crdtVars, moreVars>>

\* a reconnect timer fires: reconnectAttempts++; connect()
sockets_reconnect(created) ==
  /\ sockets.timers > 0
  /\ Len(sockets.list) < MaxSockets
  /\ sockets' = sockets_new([sockets EXCEPT !.timers = @ - 1,
                                            !.reconnectAttempts = @ + 1],
                            created)
  /\ UNCHANGED <<layer, reconciliationRequest, typed>>
  /\ UNCHANGED <<replicaVars, convVars, syncVars, crdtVars, moreVars>>

\* disconnect(): if (ws) { ws.close(); ws = null }
sockets_disconnect ==
  /\ sockets.ws # 0
  /\ sockets' = [sockets EXCEPT
                   !.list[sockets.ws] = IF @ \in Live THEN "closing" ELSE @,
                   !.ws = 0]
  /\ UNCHANGED <<layer, reconciliationRequest, typed>>
  /\ UNCHANGED <<replicaVars, convVars, syncVars, crdtVars, moreVars>>

SocketsNext ==
  \/ \E created \in BOOLEAN : sockets_connect(created)
  \/ \E i \in 1..MaxSockets : sockets_onopen(i)
  \/ \E i \in 1..MaxSockets : sockets_onclose(i)
  \/ \E created \in BOOLEAN : sockets_reconnect(created)
  \/ sockets_disconnect

\* ------------------------------------------------------ the specifications

vars == <<replicaVars, convVars, syncVars, dataVars>>

CrdtIdle == LWWIdle /\ ORMapIdle /\ RGAInit /\ TombstoneSetInit

MoreIdle ==
  PNCounterInit /\ TwoPhaseSetInit /\ OrderedSetInit /\ ClocksIdle /\ HubInit

ExtraIdle == LayerIdle /\ RequestIdle /\ TypedInit /\ SocketsInit

Init == ReplicaInit /\ ConvInit /\ SyncInit /\ CrdtIdle /\ MoreIdle /\ ExtraIdle

Next == ReplicaNext

\* Spec runs one replica only: the state of the other parts of the model,
\* which none of its steps reads or writes, is not built.
NotRun == "not run"

InitReplica ==
  /\ ReplicaInit
  /\ replicaStorage = NotRun /\ replicaClock = NotRun /\ sent = NotRun
  /\ delivered = NotRun /\ applied = NotRun /\ wroteLate = NotRun
  /\ lastDelivery = NotRun
  /\ requests = NotRun /\ statusQueue = NotRun /\ received = NotRun
  /\ operationQueue = NotRun /\ wire = NotRun
  /\ socket = NotRun /\ ws = NotRun /\ reconnectAttempts = NotRun
  /\ reconnectTimer = NotRun /\ connLog = NotRun
  /\ lww = NotRun /\ orMap = NotRun /\ rga = NotRun /\ tombstoneSet = NotRun
  /\ pnCounter = NotRun /\ twoPhaseSet = NotRun /\ orderedSet = NotRun
  /\ clocks = NotRun /\ hub = NotRun
  /\ layer = NotRun /\ reconciliationRequest = NotRun /\ typed = NotRun
  /\ sockets = NotRun

Spec == InitReplica /\ [][Next]_vars

SpecConv == Init /\ [][ConvNext]_vars

SpecFilter == Init /\ [][FilterNext]_vars

SpecSync == Init /\ [][SyncNext]_vars

SpecConn == Init /\ [][ConnNext]_vars

InitLWW ==
  /\ ReplicaInit /\ ConvInit /\ SyncInit
  /\ LWWInit /\ ORMapIdle /\ RGAInit /\ TombstoneSetInit
  /\ MoreIdle /\ ExtraIdle

SpecLWW == InitLWW /\ [][LWWNext]_vars

InitORMap ==
  /\ ReplicaInit /\ ConvInit /\ SyncInit
  /\ LWWIdle /\ ORMapInit /\ RGAInit /\ TombstoneSetInit
  /\ MoreIdle /\ ExtraIdle

SpecORMap == InitORMap /\ [][ORMapNext]_vars

InitClocks ==
  /\ ReplicaInit /\ ConvInit /\ SyncInit /\ CrdtIdle
  /\ PNCounterInit /\ TwoPhaseSetInit /\ OrderedSetInit /\ ClocksInit /\ HubInit
  /\ ExtraIdle

SpecClocks == InitClocks /\ [][ClocksNext]_vars

InitLayer ==
  /\ ReplicaInit /\ ConvInit /\ SyncInit /\ CrdtIdle /\ MoreIdle
  /\ LayerInit /\ RequestIdle /\ TypedInit /\ SocketsInit

SpecLayer == InitLayer /\ [][LayerNext]_vars

SpecRequest == Init /\ [][RequestNext]_vars

SpecTyped == Init /\ [][TypedNext]_vars

SpecSockets == Init /\ [][SocketsNext]_vars

SpecPNCounter == Init /\ [][PNCounterNext]_vars

SpecTwoPhaseSet == Init /\ [][TwoPhaseSetNext]_vars

SpecOrderedSet == Init /\ [][OrderedSetNext]_vars

SpecHub == Init /\ [][HubNext]_vars

SpecRGA == Init /\ [][RGANext]_vars

SpecRGAAppend == Init /\ [][RGAAppendNext]_vars

SpecTombstoneSet == Init /\ [][TombstoneSetNext]_vars

SpecTombstoneSync == Init /\ [][TombstoneSyncNext]_vars

\* The runtime schedules every fiber that can run and the socket delivers
\* what the server sends.
SpecBroadcast == Init /\ [][BroadcastNext]_vars /\ WF_vars(BroadcastNext)

\* ------------------------------------------------- properties of Spec

\* C2: each operation setWithSync emits carries, at this replica's own
\* component, a number strictly greater than every operation it emitted
\* before, however writes interleave with applyOperations and with
\* reconciliation rounds.
C2_EmittedStrictlyIncreasing ==
  \A i \in DOMAIN emitted : \A j \in DOMAIN emitted :
    i < j => emitted[i] < emitted[j]

\* C4: an operation of a pulled batch whose replicaId is the local replica
\* id changes neither storage nor the local vector clock.
C4_LoopbackFiltered ==
  [][(pullLoop.pc = "apply" /\ pullLoop' # pullLoop /\ pullLoop'.from = Self)
       => (storage' = storage /\ vectorClock' = vectorClock)]_vars

\* an own operation was passed to applyOperations when the slot held a
\* value and the clock was behind the operation's
C4_Witness ==
  /\ pullLoop.pc \in {"apply", "done"}
  /\ pullLoop.from = Self
  /\ storage["k1"] # Absent
  /\ Get(vectorClock, Self) = 0

\* C5: when sync.push fails with NOT_CONNECTED, TIMEOUT or SEND_ERROR,
\* setWithSync completes successfully, and (no other fiber having touched
\* them while the push was pending) the value is in storage under the
\* collection name and the replica's own clock component is one more than
\* it was.
C5_PushFailureSwallowed ==
  (facade.pc = "done" /\ facade.pushResult \in PushErrors)
    => /\ facade.result = "ok"
       /\ ~facade.raced
            => /\ storage[facade.name] = facade.value
               /\ Get(vectorClock, Self) = facade.before + 1

\* setWithSync completed after its push timed out
C5_Witness ==
  /\ facade.pc = "done"
  /\ facade.pushResult = "TIMEOUT"
  /\ ~facade.raced
  /\ facade.result = "ok"
  /\ storage[facade.name] = facade.value

\* C6: when the storage write for one operation of a pulled batch fails,
\* the remaining operations of the batch are still processed and the pull
\* loop keeps running.
C6_BadOperationSkipped ==
  pullLoop.failed => (pullLoop.dropped = 0 /\ pullLoop.pc \in {"apply", "done"})

\* C7: integrating a reconcile response leaves the local clock equal to
\* response.resolvedState when it is present, and each conflict leaves its
\* slot holding conflict.serverValue when the resolution is server or merge
\* and holding what it held when the resolution is client.
C7_ReconcileIntegration ==
  /\ (reconLoop.pc \in {"conflicts", "done"} /\ reconLoop.resolvedState # NoClock)
       => vectorClock = reconLoop.resolvedState
  /\ LET conflict == reconLoop.lastConflict
     IN  /\ conflict.resolution \in {"server", "merge"}
              => storage[conflict.key] = conflict.serverValue
         /\ conflict.resolution = "client"
              => storage[conflict.key] = conflict.before

\* a response with a resolvedState was integrated; its last conflict was
\* resolved by merge and replaced what the slot held
C7_Witness ==
  /\ reconLoop.pc = "done"
  /\ reconLoop.ended = "integrated"
  /\ reconLoop.resolvedState # NoClock
  /\ reconLoop.resolvedState # emptyClock
  /\ reconLoop.lastConflict.resolution = "merge"
  /\ reconLoop.lastConflict.before # Absent
  /\ reconLoop.lastConflict.before # reconLoop.lastConflict.serverValue

\* C8: when sync.reconcile fails with a SyncError the round does not fail;
\* it writes no storage slot and ends with the local clock equal to the
\* clock the client sent.
C8_ReconcileFailureAccepted ==
  [][(reconLoop'.ended \in ReconcileErrors /\ reconLoop.ended \notin ReconcileErrors)
       => /\ reconLoop'.pc = "done"
          /\ storage' = storage
          /\ vectorClock' = reconLoop'.currentClock]_vars

\* a round ended after its reconcile request timed out, with values in
\* storage and a clock that is not empty
C8_Witness ==
  /\ reconLoop.pc = "done"
  /\ reconLoop.ended = "TIMEOUT"
  /\ reconLoop.currentClock # emptyClock
  /\ vectorClock = reconLoop.currentClock
  /\ storage["k1"] # Absent

\* the SyncError codes of a transport that is not connected
OutageErrors == {"NOT_CONNECTED", "TIMEOUT"}

\* C11: when the pull issued by a background loop (the pull loop, or the
\* reconciliation round) fails with NOT_CONNECTED or TIMEOUT, the loop does
\* not terminate: it goes on to its next iteration.
C11_LoopsSurviveOutage ==
  /\ pullLoop.error \in OutageErrors => pullLoop.pc \in {"sleep", "done"}
  /\ reconLoop.error \in OutageErrors => reconLoop.pc \in {"sleep", "done"}

\* --------------------------------------------- properties of SpecConv

\* every operation another replica emitted was passed to r's applyOperations
ReceivedAll(r) == \A operation \in sent : operation.replicaId # r => operation \in delivered[r]

\* C1: two replicas that wrote and then each received, in any order,
\* every operation the other emitted hold the same value in every slot.
C1_Convergence ==
  \A x \in Replicas : \A y \in Replicas :
    (/\ ReceivedAll(x) /\ ReceivedAll(y)
     /\ ~wroteLate[x] /\ ~wroteLate[y]
     /\ \A operation \in sent : operation.replicaId \in {x, y})
      => replicaStorage[x] = replicaStorage[y]

\* C3: passing to applyOperations an operation it has applied before,
\* whatever was applied in between, leaves every storage slot unchanged.
C3_RedeliveryIdempotent ==
  lastDelivery.again => replicaStorage[lastDelivery.to] = lastDelivery.before

\* --------------------------------------------- properties of SpecSync

\* the message type the server answers a request with
ResponseType(type) ==
  IF type = "push" THEN "ack"
  ELSE IF type = "pull" THEN "operations" ELSE "reconcile-response"

\* C9: a pending request completes successfully only on a response of the
\* matching message type that carries the request's own id.
C9_Correlation ==
  \A id \in DOMAIN requests :
    requests[id].state = "succeeded"
      => /\ requests[id].by.type = ResponseType(requests[id].type)
         /\ requests[id].by.id = id

\* C10: after a request failed by TIMEOUT, a response for it that arrives
\* later (no other request having a handler registered) has no effect: no
\* status is emitted and no request changes.
C10_TimedOutHandlerRemoved ==
  [][Len(received') > Len(received)
       => LET data == received'[Len(received')]
          IN  (/\ requests[data.id].state = "TIMEOUT"
               /\ data.type = ResponseType(requests[data.id].type)
               /\ \A id \in DOMAIN requests : id # data.id => ~requests[id].handler)
                => (statusQueue' = statusQueue /\ requests' = requests)]_vars

\* ---------------------------------------- properties of SpecBroadcast

\* C12: every operation of an unsolicited operations message is enqueued
\* on operationQueue and is eventually taken from it by the replication
\* loop, to be passed through applyOperations.
C12_BroadcastTaken == (operationQueue > 0) ~> (operationQueue = 0)

\* --------------------------------------------- properties of SpecConn

C14_DisconnectFinal ==
  connLog.disconnected
    => (reconnectTimer = NoTimer /\ socket \notin {"connecting", "open"})

\* C15: the k-th consecutive automatic reconnect attempt is started
\* 1000 * k ms after the close that triggered it, and every successful open
\* resets the attempt counter to 0.
C15_Backoff ==
  /\ connLog.sinceOpen >= 1 => connLog.delay = 1000 * connLog.sinceOpen
  /\ socket = "open" => reconnectAttempts = 0

\* C16: push, pull and reconcile called while the socket is absent or not
\* open fail with NOT_CONNECTED, send nothing, register no handler (and arm
\* no timer) and emit no status.
C16_NotConnected ==
  [][(Len(requests') > Len(requests) /\ notConnected)
       => LET request == requests'[Len(requests')]
          IN  /\ request.state = "NOT_CONNECTED"
              /\ wire' = wire
              /\ ~request.handler /\ ~request.timer
              /\ statusQueue' = statusQueue]_vars

\* a push and a reconcile were refused after disconnect()
C16_Witness ==
  /\ Len(requests) = 2
  /\ requests[1].type = "push" /\ requests[1].state = "NOT_CONNECTED"
  /\ requests[2].type = "reconcile" /\ requests[2].state = "NOT_CONNECTED"
  /\ ~ws
  /\ statusQueue = <<>>

\* ------------------------------------- properties of the data types

\* C17: the two directions of an LWW-Register merge show the same value, for
\* any two registers: the one of the larger timestamp and, at equal
\* timestamps, of the larger replica id.
C17_LWWCommutative ==
  lww.ab # NoRegister =>
    /\ lww.ab.value = lww.ba.value
    /\ \A loser \in {lww.a, lww.b} :
         \/ lww.ab.timestamp > loser.timestamp
         \/ /\ lww.ab.timestamp = loser.timestamp
            /\ ~replicaIdGreater(loser.replicaId, lww.ab.replicaId)

\* C18: the two directions of an OR-Map merge show the same record, also
\* where both maps hold a key with the same latest activity timestamp.
C18_ORMapCommutative ==
  orMap.merged => toRecord(orMap.ab) = toRecord(orMap.ba)

\* C19: the two directions of an RGA merge show the same array, for any two
\* states that append, insertAt and removeAt built on different replicas.
C19_RGACommutative ==
  rga.merged => rga_toArray(rga.ab) = rga_toArray(rga.ba)

\* C20: a.merge(b).merge(c), a.merge(b.merge(c)) and b.merge(a).merge(c)
\* show the same ids with the same values, for any three sets built by add
\* and remove.
C20_TombstoneSetAssociative ==
  tombstoneSet.merged =>
    /\ values(tombstoneSet.left) = values(tombstoneSet.right)
    /\ values(tombstoneSet.left) = values(tombstoneSet.swapped)

\* every component of x is at most that of y, a missing one being zero
leq(x, y) == \A k \in Ids : Get(x, k) <= Get(y, k)

\* C28: compare is the partial order of the clocks with missing entries read
\* as zero: Less exactly when every component is at most the other's and one
\* is smaller, Greater exactly in the mirrored case, 0 otherwise; a is Less
\* than b exactly when b is Greater than a; and a is Less than
\* a.increment(r).
C28_CompareIsPartialOrder ==
  clocks.compared =>
    /\ clocks.ab = Less <=> (leq(clocks.a, clocks.b) /\ ~leq(clocks.b, clocks.a))
    /\ clocks.ab = Greater <=> (leq(clocks.b, clocks.a) /\ ~leq(clocks.a, clocks.b))
    /\ clocks.ab \notin {Less, Greater} => clocks.ab = 0
    /\ clocks.ab = Less <=> clocks.ba = Greater
    /\ clocks.incremented => clocks.ab = Less

\* two concurrent clocks, each missing the replica of the other, were compared
C28_Witness ==
  /\ clocks.compared
  /\ ~leq(clocks.a, clocks.b) /\ ~leq(clocks.b, clocks.a)
  /\ DOMAIN clocks.a \cap DOMAIN clocks.b = {}
  /\ clocks.ab = 0 /\ clocks.ba = 0

\* C22: the counters of the replicas, each counted under its own id, merged
\* in any order, any grouping and with any of them repeated, have the value
\* of all increments minus all decrements.
C22_PNCounterConverges ==
  LET counter(replica) == pnCounter.counters[replica]
      total == pnCounter.incremented - pnCounter.decremented
  IN  \A x \in Replicas, y \in Replicas, z \in Replicas :
        {x, y, z} = Replicas =>
          LET left == pn_merge(pn_merge(counter(x), counter(y)), counter(z))
              right == pn_merge(counter(x), pn_merge(counter(y), counter(z)))
          IN  /\ pn_value(left) = total
              /\ pn_value(right) = total
              /\ \A again \in Replicas :
                   pn_value(pn_merge(left, counter(again))) = total

\* increments and a decrement were made on different replicas, and replica a
\* holds what b counted but not what c counted
C22_Witness ==
  /\ pnCounter.incremented >= 2
  /\ pnCounter.decremented >= 1
  /\ pnCounter.counters["a"].increments["b"] > 0
  /\ pnCounter.counters["a"].increments["a"] > 0
  /\ pnCounter.counters["c"].decrements["c"] > 0
  /\ pnCounter.counters["a"].decrements["c"] = 0

\* C23: an element on which remove was called on a 2P-Set is not in the set
\* and not among its values in any later state, whatever is added, removed
\* or merged in afterwards.
C23_TwoPhaseSetNeverResurrects ==
  \A replica \in ReplicaIds : \A element \in twoPhaseSet.removed[replica] :
    /\ ~tps_has(twoPhaseSet.sets[replica], element)
    /\ element \notin tps_values(twoPhaseSet.sets[replica])

\* after its remove of v1, replica a added v1 again and merged the set of b,
\* which holds v1 and did not remove it
C23_Witness ==
  /\ "v1" \in twoPhaseSet.removed["a"]
  /\ twoPhaseSet.since["a"]["v1"] = {"add", "merge"}
  /\ "v1" \in twoPhaseSet.sets["a"].additions
  /\ tps_has(twoPhaseSet.sets["b"], "v1")

\* C24: an id on which remove was called on an Ordered Set is not in the set
\* in any later state, whatever timestamp a later add of it carries and
\* whatever set that still holds it is merged in.
C24_OrderedSetTombstonesPermanent ==
  \A replica \in ReplicaIds : \A id \in orderedSet.removed[replica] :
    ~os_has(orderedSet.sets[replica], id)

\* after its remove of x, replica a added x again and merged the set of b,
\* which holds x with the latest timestamp and did not remove it
C24_Witness ==
  /\ "x" \in orderedSet.removed["a"]
  /\ orderedSet.since["a"]["x"] = {"add", "merge"}
  /\ os_has(orderedSet.sets["b"], "x")
  /\ orderedSet.sets["a"].elements["x"].timestamp = MaxTime

C25_TombstoneSetInvariant ==
  \A set \in SyncNames, id \in ElementIds :
    LET element == tombstoneSet[set].elements[id]
        tombstone == tombstoneSet[set].tombstones[id]
    IN  /\ ~(/\ element # NoElement
             /\ tombstone # NoTombstone
             /\ tombstone.timestamp > element.timestamp)
        /\ has(tombstoneSet[set], id)
             <=> (/\ element # NoElement
                  /\ ~(/\ tombstone # NoTombstone
                       /\ tombstone.timestamp >= element.timestamp))

\* a merge left set a with an entry and a tombstone of the same timestamp
\* for x: the entry is stored and has(x) is false
C25_Witness ==
  /\ tombstoneSet.a.elements["x"] # NoElement
  /\ tombstoneSet.a.tombstones["x"] # NoTombstone
  /\ tombstoneSet.a.tombstones["x"].timestamp = tombstoneSet.a.elements["x"].timestamp
  /\ ~has(tombstoneSet.a, "x")
  /\ tombstoneSet.b.tombstones["x"] # NoTombstone
  /\ tombstoneSet.b.elements["x"] = NoElement

\* C21: for every mutator m and every reachable state a, merge(m(a), a) is
\* observationally equal to m(a). Stated for the mutators of the RGA
\* (append, insertAt, removeAt): after any of them, merging the list as it
\* was into the list as it is leaves toArray() as it is.
C21_MutatorsMonotone ==
  [][\A replica \in ReplicaIds :
       rga'[replica] # rga[replica] =>
         rga_toArray(rga_merge(rga'[replica], rga[replica]))
           = rga_toArray(rga'[replica])]_vars

C30_CausalityFilter ==
  [][\A r \in Replicas, operation \in sent :
       (replica_applyOperations(r, operation) /\ operation.replicaId # r) =>
         IF compare(operation.vectorClock, replicaClock[r]) = Less
           THEN /\ replicaStorage'[r] = replicaStorage[r]
                /\ replicaClock'[r] = replicaClock[r]
           ELSE /\ replicaStorage'[r][operation.key] = operation.value
                /\ replicaClock'[r] = operation.vectorClock]_vars

\* replica r was handed an operation of another replica and skipped it, and
\* was handed another one and applied it
C30_Witness ==
  \E r \in Replicas :
    /\ \E operation \in delivered[r] \ applied[r] : operation.replicaId # r
    /\ \E operation \in applied[r] : operation.replicaId # r

\* C31: immediately after applyOperations applied an operation of another
\* replica, the local vector clock is that operation's clock exactly,
\* whatever the local clock held before; a component the operation's clock
\* does not carry is lost.
C31_ClockOverwritten ==
  [][\A r \in Ids, operation \in sent :
       (/\ replica_applyOperations(r, operation)
        /\ operation.replicaId # r
        /\ compare(operation.vectorClock, replicaClock[r]) # Less)
       => /\ replicaClock'[r] = operation.vectorClock
          /\ \A k \in Ids :
               Get(replicaClock'[r], k) = Get(operation.vectorClock, k)]_vars

\* replica a emitted an operation, counting itself to 1 or more, then
\* applied an operation of b, and a's own component of its clock is 0
C31_Witness ==
  /\ \E operation \in sent : operation.replicaId = "a"
  /\ \E operation \in applied["a"] : operation.replicaId = "b"
  /\ Get(replicaClock["a"], "a") = 0
  /\ Get(replicaClock["a"], "b") > 0

\* C32: after applyOperations processed an operation of another replica of
\* type reconcile that was not skipped and carries a serverClock, the local
\* vector clock is that serverClock.
C32_ServerClockAssigned ==
  [][\A operation \in RemoteOps :
       (/\ pullLoop_apply(operation, TRUE)
        /\ operation.type = "reconcile"
        /\ operation.serverClock # NoClock
        /\ operation.replicaId # Self
        /\ compare(operation.vectorClock, vectorClock) # Less)
       => vectorClock' = operation.serverClock]_vars

\* C33: the pull loop and the reconciliation loop are forked if and only
\* if autoSyncInterval is greater than 0 and the SyncService provided to the
\* layer is not the manual engine.
C33_LoopsOnlyWithTransport ==
  layer.built =>
    (layer.loops <=> (/\ layer.config.autoSyncInterval.present
                      /\ layer.config.autoSyncInterval.ms > 0
                      /\ layer.sync # "manual"))

\* C34: the ReconciliationRequest a reconcile round builds carries
\* operations this replica originated, and its clientState is the local
\* vector clock read when the request is built.
C34_RequestCarriesLocalOperations ==
  [][\A r \in Ids, operations \in SUBSET sent :
       replica_performReconciliation(r, operations) =>
         /\ \A operation \in reconciliationRequest'.operations : operation.replicaId = r
         /\ reconciliationRequest'.clientState = replicaClock[r]]_vars

\* C35: every push and every reconcile on an open connection offered
\* "syncing" to the status stream, and whenever the pushes and reconciles
\* made so far have all finished (by their answer, by timeout or by a send
\* error) the most recent status is "online" or "offline", not "syncing".
C35_StatusProtocol ==
  LET calls == {id \in DOMAIN requests : requests[id].type \in {"push", "reconcile"}}
      syncing == {i \in DOMAIN statusQueue : statusQueue[i] = "syncing"}
  IN  /\ Cardinality(syncing) = Cardinality(calls)
      /\ (calls # {} /\ \A id \in calls : requests[id].state # "pending")
           => statusQueue[Len(statusQueue)] \in {"online", "offline"}

\* C36: an "operations" message that answers a pending pull (its requestId
\* is that pull's) is delivered to the pull's caller, once, and its
\* operations are not offered to the queue of incoming operations.
C36_PullAnswerNotEnqueued ==
  [][\A data \in Messages :
       (/\ onmessage(data)
        /\ data.type = "operations"
        /\ requests[data.id].type = "pull"
        /\ requests[data.id].state = "pending"
        /\ requests[data.id].handler)
       => /\ requests'[data.id].state = "succeeded"
          /\ requests'[data.id].by = data
          /\ \A id \in DOMAIN requests \ {data.id} : requests'[id] = requests[id]
          /\ operationQueue' = operationQueue]_vars

\* C37: when applyOperations wrote the slot between the read and the write
\* of GSetCollection.add, what it wrote is still in the slot after the write
\* of add.
C37_FacadeMutationAtomic ==
  [][(GSetCollection_add_set /\ typed.written)
       => typed.remote \subseteq typed'.storage[typed.name].elements]_vars

\* C38: when facade writes incremented the local clock while the reconcile
\* request was pending, the local clock's component of this replica is not
\* smaller after the round's result is integrated than it was just before.
\* Stated for the round whose request fails by timeout and whose result is
\* the fallback response.
C38_ReconcileKeepsLocalProgress ==
  [][(/\ recon_timeout
      /\ Get(vectorClock, Self) > Get(reconLoop.currentClock, Self))
       => Get(vectorClock', Self) >= Get(vectorClock, Self)]_vars

\* C39: a step of a local mutator (add or remove) never lowers the timestamp
\* of a tombstone already recorded for an id, and never drops the tombstone.
C39_TombstoneNeverLowered ==
  [][\A set \in SyncNames, id \in ElementIds :
       (/\ tombstoneSet[set].tombstones[id] # NoTombstone
        /\ \/ \E at \in SyncNames, i \in ElementIds, value \in Values,
                 timestamp \in Timestamps, replicaId \in ReplicaIds :
                TombstoneSet_add(at, i, value, timestamp, replicaId)
           \/ \E at \in SyncNames, i \in ElementIds,
                 timestamp \in Timestamps, replicaId \in ReplicaIds :
                TombstoneSet_remove(at, i, timestamp, replicaId))
         => /\ tombstoneSet'[set].tombstones[id] # NoTombstone
            /\ tombstoneSet'[set].tombstones[id].timestamp
                 >= tombstoneSet[set].tombstones[id].timestamp]_vars

\* C40: at most one socket with its handlers attached is live in the engine,
\* whenever connect() is called.
C40_OneLiveSocket == Cardinality(LiveSockets) <= 1

====
